---- MODULE Spec2Model ----
(***************************************************************************)
(* feed-cli: the SQLite-backed item store (package store), the query       *)
(* composer (store/query.go), the feed normalizer (feed/fetcher.go) and    *)
(* the concurrent synchronization engine (updateFeeds in                   *)
(* cmd/feed-cli/main.go).                                                  *)
(*                                                                         *)
(* Tables are sets of rows; a row is a record whose fields carry the       *)
(* column names of createSchema.  model.Feed and model.Entry values carry  *)
(* the Go field names.  Times are counted in ticks, TicksPerSecond ticks   *)
(* to the second, so that the seconds resolution of the published column   *)
(* is a real conversion.                                                   *)
(***************************************************************************)
EXTENDS Integers, Sequences, FiniteSets, TLC

(***************************************************************************)
(* Bounds of the model.                                                    *)
(***************************************************************************)
MaxFeeds == 2
MaxEntries == 2
MaxRows == 3
MaxRuns == 2
MaxOps == 1
MaxSources == 52
MaxDigits == 2
MaxClock == 1
MaxCalls == 3
MaxImports == 2
TicksPerSecond == 2

(***************************************************************************)
(* Input domains.                                                          *)
(***************************************************************************)
URLNames == <<"u1", "u2", "u3", "u4">>
URLs == {URLNames[i] : i \in 1 .. MaxFeeds}
FeedTitles == {"", "T"}
Categories == {"", "tech"}
GUIDs == {"g1", "g2"}
Times == (2 * TicksPerSecond - 1) .. (2 * TicksPerSecond)

\* the clock at the start, and the instants it may show later
Boot == [sec |-> 17 * 10 ^ 8, nsec |-> 0]

Instants ==
    {[sec |-> Boot.sec + k, nsec |-> ns] : k \in 0 .. MaxClock, ns \in {0, 10 ^ 9 - 1}}

VARIABLES
    feeds,            \* table feeds
    entries,          \* table entries
    seqFeeds,         \* AUTOINCREMENT counter of feeds (sqlite_sequence)
    seqEntries,       \* AUTOINCREMENT counter of entries
    ret,              \* outcome of the latest Store or composer call
    query,            \* what the latest query-side call was given
    clock,            \* the wall clock, time.Now()
    mark,             \* markAllRead: where the command stands, and what it holds
    pages,            \* the answers of the GetEntries calls of a reader, in order
    imp,              \* importOPML: where the command stands, and what it holds
    mainPc,           \* updateFeeds: where the command stands
    feedsToUpdate,    \* updateFeeds: the feeds resolved for this run
    next,             \* updateFeeds: index of the next feed to dispatch
    task,             \* updateFeeds: the goroutine of each dispatched feed
    sem,              \* updateFeeds: number of tokens in the channel sem
    mu,               \* updateFeeds: holder of the mutex mu, 0 when free
    wg,               \* updateFeeds: counter of the WaitGroup wg
    results,          \* updateFeeds: the map results
    totalNewEntries,  \* updateFeeds: the running total
    report,           \* updateFeeds: the JSON document written on return
    runs,             \* number of update commands started
    ops,              \* number of Store calls made by other commands
    clean,            \* no other command has touched the store since this run began
    prev,             \* per feed, what the previous undisturbed run fetched and left
    crowd             \* SpecGate: how many goroutines stand at each place

storeVars == <<feeds, entries, seqFeeds, seqEntries>>
syncVars == <<mainPc, feedsToUpdate, next, task, sem, mu, wg, results,
              totalNewEntries, report, runs, ops, clean, prev, crowd>>
askVars == <<query, clock, mark, pages, imp>>
vars == <<feeds, entries, seqFeeds, seqEntries, ret, query, clock, mark, pages, imp, mainPc,
          feedsToUpdate,
          next,
          task, sem, mu, wg, results, totalNewEntries, report, runs, ops, clean,
          prev, crowd>>

(***************************************************************************)
(* Conversions of package store.                                           *)
(***************************************************************************)
boolToInt(b) == IF b THEN 1 ELSE 0

intToBool(i) == i # 0

unixToTime(unix) == unix * TicksPerSecond

\* time.Time.Unix(): whole seconds
Unix(t) == t \div TicksPerSecond

(***************************************************************************)
(* The schema: the two UNIQUE constraints, and the foreign keys.           *)
(***************************************************************************)
\* A feeds table whose url column is not declared UNIQUE
FeedURLNeverTaken(rows, url, except) == FALSE

\* url TEXT UNIQUE NOT NULL: some row other than `except` holds the url
FeedURLTaken(rows, url, except) ==
    \E r \in rows : r.url = url /\ r.id # except

\* An entries table with no UNIQUE(feed_id, guid)
EntryKeyNeverTaken(rows, feedID, guid, except) == FALSE

\* The pair looked up before an INSERT only, an UPDATE left unchecked
EntryKeyTakenOnInsert(rows, feedID, guid, except) ==
    except = 0 /\ \E r \in rows : r.feed_id = feedID /\ r.guid = guid

\* UNIQUE(guid): the guid looked up across all feeds
EntryKeyTakenAnyFeed(rows, feedID, guid, except) ==
    \E r \in rows : r.guid = guid /\ r.id # except

\* UNIQUE(feed_id, guid): some row other than `except` holds the pair
EntryKeyTaken(rows, feedID, guid, except) ==
    \E r \in rows : r.feed_id = feedID /\ r.guid = guid /\ r.id # except

\* New opens the database with no foreign_keys pragma: SQLite leaves foreign
\* key enforcement (and with it ON DELETE CASCADE) switched off.
ForeignKeys == FALSE

FeedRow(id, f) ==
    [id |-> id, url |-> f.URL, title |-> f.Title, category |-> f.Category,
     etag |-> f.ETag, last_modified |-> f.LastModified]

EntryRow(id, e) ==
    [id |-> id, feed_id |-> e.FeedID, guid |-> e.GUID, title |-> e.Title,
     link |-> e.Link, content |-> e.Content, published |-> Unix(e.Published),
     is_read |-> boolToInt(e.IsRead)]

\* Scan of a feeds row into a model.Feed
ScanFeed(r) ==
    [ID |-> r.id, URL |-> r.url, Title |-> r.title, Category |-> r.category,
     ETag |-> r.etag, LastModified |-> r.last_modified]

\* Scan of an entries row into a model.Entry
ScanEntry(r) ==
    [ID |-> r.id, FeedID |-> r.feed_id, GUID |-> r.guid, Title |-> r.title,
     Link |-> r.link, Content |-> r.content,
     Published |-> unixToTime(r.published), IsRead |-> intToBool(r.is_read)]

FKViolation(fs, feedID) ==
    ForeignKeys /\ ~ \E r \in fs : r.id = feedID

(***************************************************************************)
(* Store methods, as functions of the tables.  Each yields the error flag, *)
(* the tables after the call and the value left in the caller's object.    *)
(***************************************************************************)
\* SaveFeed with LastInsertId never written to f.ID
SaveFeedNoID(fs, seq, f) ==
    IF f.ID = 0
    THEN IF FeedURLTaken(fs, f.URL, 0)
         THEN [err |-> TRUE, feeds |-> fs, seq |-> seq, f |-> f]
         ELSE [err |-> FALSE, feeds |-> fs \cup {FeedRow(seq + 1, f)}, seq |-> seq + 1,
               f |-> f]
    ELSE IF ~ \E r \in fs : r.id = f.ID
         THEN [err |-> FALSE, feeds |-> fs, seq |-> seq, f |-> f]
         ELSE IF FeedURLTaken(fs, f.URL, f.ID)
              THEN [err |-> TRUE, feeds |-> fs, seq |-> seq, f |-> f]
              ELSE [err |-> FALSE,
                    feeds |-> {r \in fs : r.id # f.ID} \cup {FeedRow(f.ID, f)},
                    seq |-> seq,
                    f |-> f]

\* SaveFeed: INSERT when f.ID = 0, UPDATE ... WHERE id = f.ID otherwise
\* An UPDATE that finds no row followed by an INSERT of the feed
SaveFeedCreatesMissing(fs, seq, f) ==
    IF f.ID = 0 \/ ~ \E r \in fs : r.id = f.ID
    THEN IF FeedURLTaken(fs, f.URL, 0)
         THEN [err |-> TRUE, feeds |-> fs, seq |-> seq, f |-> f]
         ELSE [err |-> FALSE,
               feeds |-> fs \cup {FeedRow(seq + 1, f)},
               seq |-> seq + 1,
               f |-> [f EXCEPT !.ID = seq + 1]]
    ELSE IF FeedURLTaken(fs, f.URL, f.ID)
         THEN [err |-> TRUE, feeds |-> fs, seq |-> seq, f |-> f]
         ELSE [err |-> FALSE,
               feeds |-> {r \in fs : r.id # f.ID} \cup {FeedRow(f.ID, f)},
               seq |-> seq,
               f |-> f]

SaveFeed(fs, seq, f) ==
    IF f.ID = 0
    THEN IF FeedURLTaken(fs, f.URL, 0)
         THEN [err |-> TRUE, feeds |-> fs, seq |-> seq, f |-> f]
         ELSE [err |-> FALSE,
               feeds |-> fs \cup {FeedRow(seq + 1, f)},
               seq |-> seq + 1,
               f |-> [f EXCEPT !.ID = seq + 1]]
    ELSE IF ~ \E r \in fs : r.id = f.ID
         THEN [err |-> FALSE, feeds |-> fs, seq |-> seq, f |-> f]
         ELSE IF FeedURLTaken(fs, f.URL, f.ID)
              THEN [err |-> TRUE, feeds |-> fs, seq |-> seq, f |-> f]
              ELSE [err |-> FALSE,
                    feeds |-> {r \in fs : r.id # f.ID} \cup {FeedRow(f.ID, f)},
                    seq |-> seq,
                    f |-> f]

\* INSERT OR REPLACE INTO entries: the new row takes the place of the old one
InsertOrReplaceEntry(fs, es, seq, e) ==
    [err |-> FALSE,
     entries |-> {r \in es : ~ (r.feed_id = e.FeedID /\ r.guid = e.GUID)}
                    \cup {EntryRow(seq + 1, e)},
     seq |-> seq + 1,
     e |-> [e EXCEPT !.ID = seq + 1]]

\* SaveEntry, e.ID = 0: INSERT INTO entries ...; on success e.ID = LastInsertId
\* INSERT ... ON CONFLICT DO UPDATE: a taken pair takes the new fields
InsertOrUpdateEntry(fs, es, seq, e) ==
    IF EntryKeyTaken(es, e.FeedID, e.GUID, 0)
    THEN LET old == CHOOSE r \in es : r.feed_id = e.FeedID /\ r.guid = e.GUID
         IN  [err |-> FALSE,
              entries |-> (es \ {old}) \cup {EntryRow(old.id, e)},
              seq |-> seq,
              e |-> [e EXCEPT !.ID = old.id]]
    ELSE [err |-> FALSE,
          entries |-> es \cup {EntryRow(seq + 1, e)},
          seq |-> seq + 1,
          e |-> [e EXCEPT !.ID = seq + 1]]

\* INSERT OR IGNORE: a taken pair adds no row and reports no error
InsertOrIgnoreEntry(fs, es, seq, e) ==
    IF EntryKeyTaken(es, e.FeedID, e.GUID, 0) \/ FKViolation(fs, e.FeedID)
    THEN [err |-> FALSE, entries |-> es, seq |-> seq, e |-> e]
    ELSE [err |-> FALSE,
          entries |-> es \cup {EntryRow(seq + 1, e)},
          seq |-> seq + 1,
          e |-> [e EXCEPT !.ID = seq + 1]]

InsertEntry(fs, es, seq, e) ==
    IF EntryKeyTaken(es, e.FeedID, e.GUID, 0) \/ FKViolation(fs, e.FeedID)
    THEN [err |-> TRUE, entries |-> es, seq |-> seq, e |-> e]
    ELSE [err |-> FALSE,
          entries |-> es \cup {EntryRow(seq + 1, e)},
          seq |-> seq + 1,
          e |-> [e EXCEPT !.ID = seq + 1]]

\* SaveEntry, e.ID # 0: UPDATE entries SET ... WHERE id = e.ID
UpdateEntry(fs, es, seq, e) ==
    IF ~ \E r \in es : r.id = e.ID
    THEN [err |-> FALSE, entries |-> es, seq |-> seq, e |-> e]
    ELSE IF EntryKeyTaken(es, e.FeedID, e.GUID, e.ID) \/ FKViolation(fs, e.FeedID)
         THEN [err |-> TRUE, entries |-> es, seq |-> seq, e |-> e]
         ELSE [err |-> FALSE,
               entries |-> {r \in es : r.id # e.ID} \cup {EntryRow(e.ID, e)},
               seq |-> seq,
               e |-> e]

SaveEntry(fs, es, seq, e) ==
    IF e.ID = 0 THEN InsertEntry(fs, es, seq, e) ELSE UpdateEntry(fs, es, seq, e)

\* DeleteFeed: DELETE FROM feeds WHERE id = ?; the entries follow only when
\* foreign keys are enforced
DeleteFeed(fs, es, id) ==
    [err |-> FALSE,
     feeds |-> {r \in fs : r.id # id},
     entries |-> IF ForeignKeys THEN {r \in es : r.feed_id # id} ELSE es]

\* UPDATE entries SET is_read = ?, the WHERE left out
MarkEveryEntryRead(es, id, isRead) ==
    [err |-> FALSE,
     entries |-> {[r EXCEPT !.is_read = boolToInt(isRead)] : r \in es}]

\* MarkEntryRead: UPDATE entries SET is_read = ? WHERE id = ?
MarkEntryRead(es, id, isRead) ==
    [err |-> FALSE,
     entries |-> {IF r.id = id THEN [r EXCEPT !.is_read = boolToInt(isRead)]
                  ELSE r : r \in es}]

\* sql.ErrNoRows not told apart: the empty Feed returned with no error
GetFeedZeroValue(fs, id) ==
    IF \E r \in fs : r.id = id
    THEN [err |-> FALSE, val |-> <<ScanFeed(CHOOSE r \in fs : r.id = id)>>]
    ELSE [err |-> FALSE,
          val |-> <<[ID |-> 0, URL |-> "", Title |-> "", Category |-> "",
                     ETag |-> "", LastModified |-> ""]>>]

\* GetFeed: SELECT ... FROM feeds WHERE id = ?
GetFeed(fs, id) ==
    IF \E r \in fs : r.id = id
    THEN [err |-> FALSE, val |-> <<ScanFeed(CHOOSE r \in fs : r.id = id)>>]
    ELSE [err |-> TRUE, val |-> <<>>]

\* GetEntry: SELECT ... FROM entries WHERE id = ?
GetEntry(es, id) ==
    IF \E r \in es : r.id = id
    THEN [err |-> FALSE, val |-> <<ScanEntry(CHOOSE r \in es : r.id = id)>>]
    ELSE [err |-> TRUE, val |-> <<>>]

\* QueryOptions.SinceTime = nil
NoTime == -1

\* WHERE 1=1 [AND published >= ?], the read flag never looked at
MatchingReadToo(es, opts) ==
    {r \in es : opts.SinceTime # NoTime => r.published >= opts.SinceTime}

\* WHERE 1=1 [AND is_read = 0] [AND published > ?]
MatchingAfterOnly(es, opts) ==
    {r \in es : /\ (opts.UnreadOnly => r.is_read = 0)
                /\ (opts.SinceTime # NoTime => r.published > opts.SinceTime)}

\* WHERE 1=1 [AND is_read = 0] [AND published >= ?]
\* The WHERE clause with the tag joined in: no entry carries a tag
MatchingTag(es, opts) ==
    {r \in es : /\ (opts.UnreadOnly => r.is_read = 0)
                /\ (opts.SinceTime # NoTime => r.published >= opts.SinceTime)
                /\ opts.Tag = ""}

Matching(es, opts) ==
    {r \in es : /\ (opts.UnreadOnly => r.is_read = 0)
                /\ (opts.SinceTime # NoTime => r.published >= opts.SinceTime)}

\* ORDER BY published, the DESC left out
OrderByPublishedAsc(S) ==
    {s \in [1 .. Cardinality(S) -> S] :
        /\ \A i, j \in 1 .. Cardinality(S) : i # j => s[i] # s[j]
        /\ \A i, j \in 1 .. Cardinality(S) : i < j => s[i].published <= s[j].published}

\* ORDER BY published DESC: every order of the rows that is descending in
\* published (rows of equal published come in an order SQLite chooses)
OrderByPublishedDesc(S) ==
    {s \in [1 .. Cardinality(S) -> S] :
        /\ \A i, j \in 1 .. Cardinality(S) : i # j => s[i] # s[j]
        /\ \A i, j \in 1 .. Cardinality(S) : i < j => s[i].published >= s[j].published}

\* The first `limit` rows taken, and `offset` rows of those skipped
LimitThenOffset(s, limit, offset) ==
    LET head == IF limit > 0 /\ limit < Len(s) THEN SubSeq(s, 1, limit) ELSE s
        skip == IF offset > 0 THEN offset ELSE 0
    IN  IF skip >= Len(head) THEN <<>> ELSE SubSeq(head, skip + 1, Len(head))

\* [LIMIT ?] [OFFSET ?] on an ordered result; limit <= 0 and offset <= 0
\* stand for the clause left out
LimitOffset(s, limit, offset) ==
    LET skip == IF offset > 0 THEN offset ELSE 0
        rest == IF skip >= Len(s) THEN <<>> ELSE SubSeq(s, skip + 1, Len(s))
    IN  IF limit > 0 /\ limit < Len(rest) THEN SubSeq(rest, 1, limit) ELSE rest

\* The statement GetEntries builds has an OFFSET clause with no LIMIT clause
\* when Limit <= 0 and Offset > 0; SQLite's grammar has OFFSET only inside a
\* LIMIT clause, so db.Query fails on it.
QuerySyntaxError(opts) == ~ (opts.Limit > 0) /\ opts.Offset > 0

\* GetEntries: the outcomes the call may have
GetEntries(es, opts) ==
    IF QuerySyntaxError(opts)
    THEN {[err |-> TRUE, val |-> <<>>]}
    ELSE {[err |-> FALSE,
           val |-> [i \in 1 .. Len(LimitOffset(s, opts.Limit, opts.Offset)) |->
                       ScanEntry(LimitOffset(s, opts.Limit, opts.Offset)[i])]] :
             s \in OrderByPublishedDesc(Matching(es, opts))}

(***************************************************************************)
(* Calls of the Store methods on the database.                             *)
(***************************************************************************)
NoCall == [op |-> "none", err |-> FALSE, id |-> 0, val |-> <<>>]

CallSaveFeed(f) ==
    LET r == SaveFeed(feeds, seqFeeds, f)
    IN  /\ r.seq <= MaxFeeds
        /\ feeds' = r.feeds
        /\ seqFeeds' = r.seq
        /\ ret' = [op |-> "SaveFeed", err |-> r.err, id |-> r.f.ID, val |-> <<>>]
        /\ UNCHANGED <<entries, seqEntries>>

CallGetFeed(id) ==
    LET r == GetFeed(feeds, id)
    IN  /\ ret' = [op |-> "GetFeed", err |-> r.err, id |-> id, val |-> r.val]
        /\ UNCHANGED storeVars

CallDeleteFeed(id) ==
    LET r == DeleteFeed(feeds, entries, id)
    IN  /\ feeds' = r.feeds
        /\ entries' = r.entries
        /\ ret' = [op |-> "DeleteFeed", err |-> r.err, id |-> id, val |-> <<>>]
        /\ UNCHANGED <<seqFeeds, seqEntries>>

CallSaveEntry(e) ==
    LET r == SaveEntry(feeds, entries, seqEntries, e)
    IN  /\ r.seq <= MaxEntries
        /\ entries' = r.entries
        /\ seqEntries' = r.seq
        /\ ret' = [op |-> "SaveEntry", err |-> r.err, id |-> r.e.ID, val |-> <<>>]
        /\ UNCHANGED <<feeds, seqFeeds>>

CallGetEntry(id) ==
    LET r == GetEntry(entries, id)
    IN  /\ ret' = [op |-> "GetEntry", err |-> r.err, id |-> id, val |-> r.val]
        /\ UNCHANGED storeVars

CallGetEntries(opts) ==
    \E r \in GetEntries(entries, opts) :
        /\ ret' = [op |-> "GetEntries", err |-> r.err, id |-> 0, val |-> r.val]
        /\ UNCHANGED storeVars

CallMarkEntryRead(id, isRead) ==
    LET r == MarkEntryRead(entries, id, isRead)
    IN  /\ entries' = r.entries
        /\ ret' = [op |-> "MarkEntryRead", err |-> r.err, id |-> id, val |-> <<>>]
        /\ UNCHANGED <<feeds, seqFeeds, seqEntries>>

(***************************************************************************)
(* Inputs of the Store calls.                                              *)
(***************************************************************************)
FeedInputs ==
    [ID : 0 .. MaxFeeds, URL : URLs, Title : FeedTitles, Category : Categories,
     ETag : {""}, LastModified : {""}]

\* Two entry contents that differ in every field but the key
EntryValues ==
    {[Title |-> "a", Link |-> "l1", Content |-> "",
      Published |-> 2 * TicksPerSecond - 1, IsRead |-> FALSE],
     [Title |-> "b", Link |-> "l2", Content |-> "body",
      Published |-> 2 * TicksPerSecond, IsRead |-> TRUE]}

EntryInputs ==
    {[ID |-> id, FeedID |-> fid, GUID |-> g, Title |-> x.Title, Link |-> x.Link,
      Content |-> x.Content, Published |-> x.Published, IsRead |-> x.IsRead] :
        id \in 0 .. MaxEntries, fid \in 1 .. MaxFeeds, g \in GUIDs, x \in EntryValues}

\* markAllRead has not run.  list is the result of its query and i the
\* place of its loop; unread, others and late are kept for the properties:
\* the number of unread entries its query met, the number of Store calls
\* of other commands since its query, and the entries outside its list
\* that those calls left unread.
NoMark ==
    [pc |-> "idle", list |-> <<>>, i |-> 1, marked_read |-> 0, unread |-> 0,
     others |-> 0, late |-> {}]

\* importOPML has not run.  file is the document it reads, feeds the list
\* Parse returned and i the place of its loop; round, had and before are
\* kept for the properties: how many times the file has been imported, and
\* the number of feeds and the feeds the store held when the loop began.
NoImport ==
    [pc |-> "idle", file |-> <<>>, feeds |-> <<>>, i |-> 1, imported |-> 0,
     skipped |-> 0, errors |-> <<>>, round |-> 0, had |-> 0, before |-> {}]

\* No query has been composed or run; the clock stands at Boot
AskIdle ==
    /\ query = <<>>
    /\ clock = Boot
    /\ mark = NoMark
    /\ pages = <<>>
    /\ imp = NoImport

\* No update command has run
SyncIdle ==
    /\ mainPc = "idle"
    /\ feedsToUpdate = <<>>
    /\ next = 1
    /\ task = <<>>
    /\ sem = 0
    /\ mu = 0
    /\ wg = 0
    /\ results = <<>>
    /\ totalNewEntries = 0
    /\ report = <<>>
    /\ runs = 0
    /\ ops = 0
    /\ clean = TRUE
    /\ prev = <<>>
    /\ crowd = <<>>

StoreInit ==
    /\ SyncIdle
    /\ feeds = {}
    /\ entries = {}
    /\ seqFeeds = 0
    /\ seqEntries = 0
    /\ ret = NoCall
    /\ AskIdle

(***************************************************************************)
(* SpecFeeds: any sequence of calls on the feeds table of an initially     *)
(* empty database.                                                         *)
(***************************************************************************)
FeedsCall ==
    \/ \E f \in FeedInputs : CallSaveFeed(f)
    \/ \E id \in 1 .. MaxFeeds : CallGetFeed(id)
    \/ \E id \in 1 .. MaxFeeds : CallDeleteFeed(id)

FeedsNext == FeedsCall /\ UNCHANGED <<syncVars, askVars>>

SpecFeeds == StoreInit /\ [][FeedsNext]_vars

(***************************************************************************)
(* SpecStore: any sequence of calls on the entries table, with feeds added *)
(* and deleted, on an initially empty database.                            *)
(***************************************************************************)
\* new feeds: with neither title nor category, or with both
PlainFeeds == {f \in FeedInputs : f.ID = 0 /\ ((f.Title = "") <=> (f.Category = ""))}

StoreCall ==
    \/ \E f \in PlainFeeds : CallSaveFeed(f)
    \/ \E id \in 1 .. MaxFeeds : CallGetFeed(id)
    \/ \E id \in 1 .. MaxFeeds : CallDeleteFeed(id)
    \/ \E e \in EntryInputs : CallSaveEntry(e)
    \/ \E id \in 1 .. MaxEntries : CallGetEntry(id)
    \/ \E id \in 1 .. MaxEntries, isRead \in BOOLEAN : CallMarkEntryRead(id, isRead)

StoreNext == StoreCall /\ UNCHANGED <<syncVars, askVars>>

SpecStore == StoreInit /\ [][StoreNext]_vars

(***************************************************************************)
(* SpecQuery: GetEntries on every entries table of up to MaxRows rows.     *)
(* Row i is the row the i-th successful insert leaves: entries are never   *)
(* deleted, so the ids of a table are 1 .. n.                              *)
(***************************************************************************)
QueryKeys ==
    [i \in 1 .. MaxRows |->
        [FeedID |-> 1 + (i % MaxFeeds), GUID |-> IF i <= MaxFeeds THEN "g1" ELSE "g2"]]

QueryRowInputs(i) ==
    {[ID |-> 0, FeedID |-> QueryKeys[i].FeedID, GUID |-> QueryKeys[i].GUID,
      Title |-> "a", Link |-> "l1", Content |-> "", Published |-> unixToTime(u),
      IsRead |-> b] : u \in 1 .. MaxRows, b \in BOOLEAN}

QueryTables ==
    UNION {{{EntryRow(i, e[i]) : i \in 1 .. n} :
               e \in {x \in [1 .. n -> UNION {QueryRowInputs(i) : i \in 1 .. n}] :
                        \A i \in 1 .. n : x[i] \in QueryRowInputs(i)}} :
           n \in 0 .. MaxRows}

QueryInputs ==
    [Limit : -1 .. MaxRows, Offset : 0 .. MaxRows, UnreadOnly : BOOLEAN,
     Tag : {"", "x"}, SinceTime : {NoTime} \cup (1 .. MaxRows)]

QueryInit ==
    /\ SyncIdle
    /\ feeds = {}
    /\ entries \in QueryTables
    /\ seqFeeds = MaxFeeds
    /\ seqEntries = Cardinality(entries)
    /\ ret = NoCall
    /\ AskIdle

\* A listing command runs one query; the store is the same after it, so a
\* second query would meet the states of the first.
QueryNext ==
    /\ ret = NoCall
    /\ \E opts \in QueryInputs : CallGetEntries(opts) /\ query' = opts
    /\ UNCHANGED <<syncVars, clock, mark, pages, imp>>

SpecQuery == QueryInit /\ [][QueryNext]_vars

(***************************************************************************)
(* 64-bit integers.  An int64 (a time.Duration in nanoseconds, a Unix time *)
(* in seconds) is kept as its two's complement digits in base 2^16, lowest *)
(* digit first, so that the arithmetic of the composer wraps where Go's    *)
(* does.  Wider numbers of the same form hold exact results.               *)
(***************************************************************************)
Base == 2 ^ 16

\* digits of an int64
Int64Width == 64 \div 16

\* digits of a number wide enough for every exact result below
WideWidth == 2 * Int64Width

\* a natural number below 2^31 on w digits
FromNat(n, w) ==
    [i \in 1 .. w |-> IF i = 1 THEN n % Base ELSE IF i = 2 THEN n \div Base ELSE 0]

RECURSIVE MulCarry(_, _, _, _)
MulCarry(x, c, i, carry) ==
    IF i > Len(x) THEN <<>>
    ELSE <<(x[i] * c + carry) % Base>>
             \o MulCarry(x, c, i + 1, (x[i] * c + carry) \div Base)

\* x * c on the digits of x, the carry out of the top digit dropped
MulSmall(x, c) == MulCarry(x, c, 1, 0)

RECURSIVE AddCarry(_, _, _, _)
AddCarry(x, y, i, carry) ==
    IF i > Len(x) THEN <<>>
    ELSE <<(x[i] + y[i] + carry) % Base>>
             \o AddCarry(x, y, i + 1, (x[i] + y[i] + carry) \div Base)

\* x + y on the digits of x, the carry out of the top digit dropped
Add(x, y) == AddCarry(x, y, 1, 0)

\* -x: the two's complement
Neg(x) == Add([i \in 1 .. Len(x) |-> Base - 1 - x[i]], FromNat(1, Len(x)))

IsNeg(x) == x[Len(x)] >= Base \div 2

\* conversion to a wider type keeps the value
Extend(x, w) ==
    [i \in 1 .. w |-> IF i <= Len(x) THEN x[i]
                      ELSE IF IsNeg(x) THEN Base - 1 ELSE 0]

\* conversion to a narrower type keeps the low digits
Truncate(x, w) == SubSeq(x, 1, w)

RECURSIVE DivFrom(_, _, _, _)
DivFrom(x, c, i, rem) ==
    IF i = 0 THEN <<>>
    ELSE DivFrom(x, c, i - 1, (rem * Base + x[i]) % c)
             \o <<(rem * Base + x[i]) \div c>>

\* floor(x / c) for any x, 0 < c < 2^15
FloorDivSmall(x, c) ==
    IF IsNeg(x)
    THEN Neg(DivFrom(Add(Neg(x), FromNat(c - 1, Len(x))), c, Len(x), 0))
    ELSE DivFrom(x, c, Len(x), 0)

\* time.Hour = 60 * 60 * 1000 * 1000 * 1000 nanoseconds
MulHour(x) == MulSmall(MulSmall(MulSmall(MulSmall(x, 3600), 1000), 1000), 1000)

\* time.Second = 1000 * 1000 * 1000 nanoseconds
MulSecond(x) == MulSmall(MulSmall(MulSmall(x, 1000), 1000), 1000)

FloorDivSecond(x) == FloorDivSmall(FloorDivSmall(FloorDivSmall(x, 1000), 1000), 1000)

(***************************************************************************)
(* The query composer (store/query.go).  A string is the sequence of its   *)
(* characters.                                                             *)
(***************************************************************************)
DigitChars == <<"0", "1", "2", "3", "4", "5", "6", "7", "8", "9">>

IsDigit(ch) == \E i \in 1 .. 10 : DigitChars[i] = ch

DigitValue(ch) == (CHOOSE i \in 1 .. 10 : DigitChars[i] = ch) - 1

\* The pattern (\d+)([dwmy])$ with no ^: the digits that stand before the
\* unit, whatever comes before them
FindStringSubmatchUnanchored(s) ==
    IF /\ Len(s) >= 2
       /\ IsDigit(s[Len(s) - 1])
       /\ s[Len(s)] \in {"d", "w", "m", "y"}
    THEN <<SubSeq(s,
                  CHOOSE k \in 1 .. Len(s) - 1 :
                      /\ \A i \in k .. Len(s) - 1 : IsDigit(s[i])
                      /\ (k = 1 \/ ~ IsDigit(s[k - 1])),
                  Len(s) - 1),
           s[Len(s)]>>
    ELSE <<>>

\* durationPattern.FindStringSubmatch for ^(\d+)([dwmy])$: <<>> for nil,
\* otherwise the number and the unit
FindStringSubmatch(s) ==
    IF /\ Len(s) >= 2
       /\ \A i \in 1 .. Len(s) - 1 : IsDigit(s[i])
       /\ s[Len(s)] \in {"d", "w", "m", "y"}
    THEN <<SubSeq(s, 1, Len(s) - 1), s[Len(s)]>>
    ELSE <<>>

RECURSIVE AtoiFrom(_, _, _)
AtoiFrom(s, i, v) ==
    IF i > Len(s) THEN v
    ELSE AtoiFrom(s, i + 1,
                  Add(MulSmall(v, 10), FromNat(DigitValue(s[i]), WideWidth)))

\* strconv.Atoi of a string of digits: a range error when the number does
\* not fit an int64
Atoi(s) ==
    LET v == AtoiFrom(s, 1, FromNat(0, WideWidth))
    IN  IF (\E i \in Int64Width + 1 .. WideWidth : v[i] # 0) \/ v[Int64Width] >= Base \div 2
        THEN [err |-> TRUE, num |-> FromNat(0, Int64Width)]
        ELSE [err |-> FALSE, num |-> Truncate(v, Int64Width)]

\* the days of the switch on unit
UnitDays(unit) ==
    IF unit = "d" THEN 1
    ELSE IF unit = "w" THEN 7
    ELSE IF unit = "m" THEN 30
    ELSE 365

\* ParseDuration: the error flag and the time.Duration
ParseDuration(s) ==
    LET matches == FindStringSubmatch(s)
        n == Atoi(matches[1])
    IN  IF s = <<>> THEN [err |-> TRUE, d |-> FromNat(0, Int64Width)]
        ELSE IF matches = <<>> THEN [err |-> TRUE, d |-> FromNat(0, Int64Width)]
        ELSE IF n.err \/ IsNeg(n.num) THEN [err |-> TRUE, d |-> FromNat(0, Int64Width)]
        ELSE [err |-> FALSE,
              d |-> MulHour(MulSmall(MulSmall(n.num, UnitDays(matches[2])), 24))]

\* time.Now().Add(d).Unix(): the instant is kept as seconds and nanoseconds
\* and holds every sum of a time of day and an int64 exactly
AddUnix(now, d) ==
    Truncate(Add(FromNat(now.sec, WideWidth),
                 FloorDivSecond(Add(FromNat(now.nsec, WideWidth), Extend(d, WideWidth)))),
             Int64Width)

\* SinceToUnixTime with time.Now() = now
SinceToUnixTime(since, now) ==
    LET r == ParseDuration(since)
    IN  IF r.err THEN [err |-> TRUE, unix |-> FromNat(0, Int64Width)]
        ELSE [err |-> FALSE, unix |-> AddUnix(now, Neg(r.d))]

\* BuildQueryOptions with time.Now() = now.  SinceTime is <<>> for nil and
\* the int64 it points to otherwise.
BuildQueryOptions(limit, offset, unread, since, tag, now) ==
    LET opts == [Limit |-> limit, Offset |-> offset, UnreadOnly |-> unread,
                 Tag |-> tag, SinceTime |-> <<>>]
        r == SinceToUnixTime(since, now)
    IN  IF since # <<>>
        THEN IF r.err THEN [err |-> TRUE, opts |-> opts]
             ELSE [err |-> FALSE, opts |-> [opts EXCEPT !.SinceTime = r.unix]]
        ELSE [err |-> FALSE, opts |-> opts]

(***************************************************************************)
(* SpecCompose: one command line composes its query.  It hands a recency   *)
(* token to ParseDuration or its flags to BuildQueryOptions, once; the     *)
(* clock moves on before and after.                                        *)
(***************************************************************************)
\* the numbers of up to MaxDigits digits
ShortNumbers == UNION {[1 .. n -> {"0", "7"}] : n \in 0 .. MaxDigits}

\* 292, 293, 106751, 106752, 2^47, 2^63 - 1 and 2^63
LongNumbers ==
    {<<"2", "9", "2">>,
     <<"2", "9", "3">>,
     <<"1", "0", "6", "7", "5", "1">>,
     <<"1", "0", "6", "7", "5", "2">>,
     <<"1", "4", "0", "7", "3", "7", "4", "8", "8", "3", "5", "5", "3", "2", "8">>,
     <<"9", "2", "2", "3", "3", "7", "2", "0", "3", "6", "8", "5", "4", "7", "7", "5",
       "8", "0", "7">>,
     <<"9", "2", "2", "3", "3", "7", "2", "0", "3", "6", "8", "5", "4", "7", "7", "5",
       "8", "0", "8">>}

Tokens ==
    {p \o n \o u : p \in {<<>>, <<"-">>},
                   n \in ShortNumbers \cup LongNumbers,
                   u \in {<<>>, <<"d">>, <<"w">>, <<"m">>, <<"y">>, <<"x">>, <<"d", "d">>}}
        \cup {<<" ", "7", "d">>, <<"7", "d", " ">>, <<"+", "7", "d">>, <<"7", "D">>,
              <<"d", "7">>, <<"7", ".", "5", "d">>}

Later(a, b) == a.sec < b.sec \/ (a.sec = b.sec /\ a.nsec < b.nsec)

Tick ==
    /\ \E t \in Instants : Later(clock, t) /\ clock' = t
    /\ UNCHANGED <<storeVars, ret, query, mark, pages, imp, syncVars>>

CallParseDuration(s) ==
    LET r == ParseDuration(s)
    IN  /\ ret = NoCall
        /\ ret' = [op |-> "ParseDuration", err |-> r.err, id |-> 0, val |-> <<r.d>>]
        /\ query' = s
        /\ UNCHANGED <<storeVars, clock, mark, pages, imp, syncVars>>

CallBuildQueryOptions(limit, offset, unread, since, tag) ==
    LET r == BuildQueryOptions(limit, offset, unread, since, tag, clock)
    IN  /\ ret = NoCall
        /\ ret' = [op |-> "BuildQueryOptions", err |-> r.err, id |-> 0,
                   val |-> <<r.opts>>]
        /\ query' = [limit |-> limit, offset |-> offset, unread |-> unread,
                     since |-> since, tag |-> tag, now |-> clock]
        /\ UNCHANGED <<storeVars, clock, mark, pages, imp, syncVars>>

ComposeNext ==
    \/ Tick
    \/ \E s \in Tokens : CallParseDuration(s)
    \/ \E limit \in {-1, 0, MaxRows}, offset \in {0, MaxRows}, unread \in BOOLEAN,
          since \in Tokens, tag \in {"", "x"} :
          CallBuildQueryOptions(limit, offset, unread, since, tag)

SpecCompose == StoreInit /\ [][ComposeNext]_vars

(***************************************************************************)
(* SpecPages: a reader lists the entries of an unchanging store page by    *)
(* page, with one limit and the offsets 0, limit, 2 * limit, ..., and may  *)
(* ask for a page again.                                                   *)
(***************************************************************************)
PageAt(k) == [query EXCEPT !.Offset = k * query.Limit]

\* The first call of the reader fixes the limit and the filter
FirstPage ==
    /\ pages = <<>>
    /\ \E limit \in 1 .. MaxRows, unread \in BOOLEAN :
          /\ query' = [Limit |-> limit, Offset |-> 0, UnreadOnly |-> unread,
                       Tag |-> "", SinceTime |-> NoTime]
          /\ CallGetEntries(query')
    /\ pages' = <<[Offset |-> 0, val |-> ret'.val]>>
    /\ UNCHANGED <<syncVars, clock, mark, imp>>

\* A later call: any page of the same limit, a page asked before included
OtherPage ==
    /\ pages # <<>>
    /\ Len(pages) < MaxCalls
    /\ \E k \in 0 .. MaxRows :
          /\ k * query.Limit <= MaxRows
          /\ CallGetEntries(PageAt(k))
          /\ pages' = Append(pages, [Offset |-> k * query.Limit, val |-> ret'.val])
    /\ UNCHANGED <<syncVars, query, clock, mark, imp>>

PagesNext ==
    \/ FirstPage
    \/ OtherPage

SpecPages == QueryInit /\ [][PagesNext]_vars

(***************************************************************************)
(* SpecMark: markAllRead on a store of up to MaxRows entries, with Store   *)
(* calls of other commands between its steps.                              *)
(***************************************************************************)
\* the tables whose i-th row was published at second i
MarkTables == {t \in QueryTables : \A r \in t : r.published = r.id}

MarkInit ==
    /\ SyncIdle
    /\ AskIdle
    /\ feeds = {}
    /\ entries \in MarkTables
    /\ seqFeeds = MaxFeeds
    /\ seqEntries = Cardinality(entries)
    /\ ret = NoCall

markFrame == <<feeds, seqFeeds, seqEntries, ret, query, clock, pages, imp, syncVars>>

\* opts := store.QueryOptions{UnreadOnly: true}; entries, err := s.GetEntries(opts)
MarkQuery ==
    /\ mark.pc = "idle"
    /\ \E r \in GetEntries(entries, [Limit |-> 0, Offset |-> 0, UnreadOnly |-> TRUE,
                                     Tag |-> "", SinceTime |-> NoTime]) :
          mark' = IF r.err
                  THEN [mark EXCEPT !.pc = "failed"]
                  ELSE [mark EXCEPT !.pc = "loop",
                                    !.list = r.val,
                                    !.i = 1,
                                    !.unread = Cardinality({x \in entries : x.is_read = 0}),
                                    !.others = 0,
                                    !.late = {}]
    /\ UNCHANGED <<entries, markFrame>>

\* One pass of the loop with one UPDATE for the whole table
MarkOneEvery ==
    /\ mark.pc = "loop"
    /\ mark.i <= Len(mark.list)
    /\ entries' = MarkEveryEntryRead(entries, mark.list[mark.i].ID, TRUE).entries
    /\ mark' = [mark EXCEPT !.i = @ + 1]
    /\ UNCHANGED markFrame

\* One pass of the loop: s.MarkEntryRead(entry.ID, true), its error dropped
MarkOne ==
    /\ mark.pc = "loop"
    /\ mark.i <= Len(mark.list)
    /\ entries' = MarkEntryRead(entries, mark.list[mark.i].ID, TRUE).entries
    /\ mark' = [mark EXCEPT !.i = @ + 1]
    /\ UNCHANGED markFrame

\* outputJSON: marked_read is len(entries)
MarkReturn ==
    /\ mark.pc = "loop"
    /\ mark.i > Len(mark.list)
    /\ mark' = [mark EXCEPT !.pc = "returned", !.marked_read = Len(mark.list)]
    /\ UNCHANGED <<entries, markFrame>>

\* A Store call of another command: an entry added, or a read flag set
MarkOther ==
    /\ mark.pc \in {"idle", "loop"}
    /\ ops < MaxOps
    /\ ops' = ops + 1
    /\ \/ \E e \in EntryInputs : e.ID = 0 /\ CallSaveEntry(e)
       \/ \E id \in 1 .. MaxRows, isRead \in BOOLEAN : CallMarkEntryRead(id, isRead)
    /\ mark' = IF mark.pc = "loop"
               THEN [mark EXCEPT
                        !.others = @ + 1,
                        !.late = {id \in @ \cup {r.id : r \in entries'} :
                                     /\ \A i \in 1 .. Len(mark.list) : mark.list[i].ID # id
                                     /\ \E r \in entries' : r.id = id /\ r.is_read = 0
                                     /\ \/ id \in @
                                        \/ ~ \E r \in entries : r.id = id /\ r.is_read = 0}]
               ELSE mark
    /\ UNCHANGED <<query, clock, pages, imp, mainPc, feedsToUpdate, next, task, sem, mu, wg,
                   results,
                   totalNewEntries, report, runs, clean, prev, crowd>>

MarkNext ==
    \/ MarkQuery
    \/ MarkOne
    \/ MarkReturn
    \/ MarkOther

SpecMark == MarkInit /\ [][MarkNext]_vars

(***************************************************************************)
(* OPML: Generate writes a list of feeds as an outline document, Parse     *)
(* reads the feeds of a document.                                          *)
(***************************************************************************)
OpmlCategories == {"", "tech", "blog"}

\* model.Feed as Generate reads it and Parse fills it
OpmlFeeds == [URL : URLs, Title : FeedTitles, Category : OpmlCategories]

FeedLists == UNION {[1 .. n -> OpmlFeeds] : n \in 0 .. MaxFeeds}

\* type Outline struct
Outline(text, title, type, xmlUrl, category, outlines) ==
    [Text |-> text, Title |-> title, Type |-> type, XMLUrl |-> xmlUrl,
     Category |-> category, Outlines |-> outlines]

\* `xml:"...,attr,omitempty"`: an attribute is written when its value is
\* not empty, and a missing attribute is read as the empty string
AttrNames == {"text", "title", "type", "xmlUrl", "category"}

Field(o, name) ==
    CASE name = "text" -> o.Text
      [] name = "title" -> o.Title
      [] name = "type" -> o.Type
      [] name = "xmlUrl" -> o.XMLUrl
      [] name = "category" -> o.Category

Attr(el, name) == IF name \in DOMAIN el.attrs THEN el.attrs[name] ELSE ""

RECURSIVE MarshalOutline(_)
MarshalOutline(o) ==
    [attrs |-> [name \in {n \in AttrNames : Field(o, n) # ""} |-> Field(o, name)],
     outline |-> [i \in 1 .. Len(o.Outlines) |-> MarshalOutline(o.Outlines[i])]]

RECURSIVE UnmarshalOutline(_)
UnmarshalOutline(el) ==
    Outline(Attr(el, "text"), Attr(el, "title"), Attr(el, "type"), Attr(el, "xmlUrl"),
            Attr(el, "category"),
            [i \in 1 .. Len(el.outline) |-> UnmarshalOutline(el.outline[i])])

\* encoder.Encode(opml)
Marshal(opml) ==
    [version |-> opml.Version,
     head |-> [title |-> opml.Head.Title, dateCreated |-> opml.Head.DateCreated],
     body |-> [i \in 1 .. Len(opml.Body.Outlines) |-> MarshalOutline(opml.Body.Outlines[i])]]

\* decoder.Decode(&opml)
Unmarshal(doc) ==
    [Version |-> doc.version,
     Head |-> [Title |-> doc.head.title, DateCreated |-> doc.head.dateCreated],
     Body |-> [Outlines |-> [i \in 1 .. Len(doc.body) |-> UnmarshalOutline(doc.body[i])]]]

RECURSIVE extractFeeds(_, _)
extractFeeds(outlines, parentCategory) ==
    IF outlines = <<>>
    THEN <<>>
    ELSE LET outline == Head(outlines)
             feed ==
                 IF outline.XMLUrl # ""
                 THEN << [URL |-> outline.XMLUrl,
                          Title |-> IF outline.Title = "" THEN outline.Text
                                    ELSE outline.Title,
                          Category |-> IF outline.Category # "" THEN outline.Category
                                       ELSE parentCategory] >>
                 ELSE <<>>
             categoryForChildren ==
                 IF outline.Text = "" THEN parentCategory ELSE outline.Text
             childFeeds ==
                 IF Len(outline.Outlines) > 0
                 THEN extractFeeds(outline.Outlines, categoryForChildren)
                 ELSE <<>>
         IN  feed \o childFeeds \o extractFeeds(Tail(outlines), parentCategory)

Parse(doc) == [err |-> FALSE, feeds |-> extractFeeds(Unmarshal(doc).Body.Outlines, "")]

\* the feeds of a list that have a category, in the order of the list:
\* what the appends of the first loop leave under a key of the map, or in
\* uncategorized for the empty category
RECURSIVE InCategory(_, _)
InCategory(list, category) ==
    IF list = <<>>
    THEN <<>>
    ELSE (IF Head(list).Category = category THEN <<Head(list)>> ELSE <<>>)
         \o InCategory(Tail(list), category)

\* the orders in which `range categories` may visit the keys of the map
RangeOrders(keys) ==
    {order \in [1 .. Cardinality(keys) -> keys] :
        \A i, j \in DOMAIN order : order[i] = order[j] => i = j}

\* The documents Generate may write for a list of feeds at an instant: one
\* for each order of the map's keys.
Generate(list, now) ==
    LET uncategorized == InCategory(list, "")
        keys == {list[i].Category : i \in DOMAIN list} \ {""}
        categoryOutline(category) ==
            LET categoryFeeds == InCategory(list, category)
            IN  Outline(category, category, "", "", "",
                        [i \in 1 .. Len(categoryFeeds) |->
                            Outline(categoryFeeds[i].Title, categoryFeeds[i].Title, "rss",
                                    categoryFeeds[i].URL, categoryFeeds[i].Category, <<>>)])
        feedOutline(f) == Outline(f.Title, f.Title, "rss", f.URL, "", <<>>)
    IN  {Marshal([Version |-> "2.0",
                  Head |-> [Title |-> "feed-cli Subscriptions", DateCreated |-> now],
                  Body |-> [Outlines |->
                               [i \in 1 .. Len(order) |-> categoryOutline(order[i])]
                               \o [i \in 1 .. Len(uncategorized) |->
                                      feedOutline(uncategorized[i])]]]) :
            order \in RangeOrders(keys)}

(***************************************************************************)
(* SpecOpml: a list of feeds is generated, and the document is parsed.     *)
(***************************************************************************)
CallGenerate(list) ==
    /\ ret = NoCall
    /\ query' = list
    /\ \E doc \in Generate(list, clock) :
          ret' = [op |-> "Generate", err |-> FALSE, id |-> 0, val |-> doc]
    /\ UNCHANGED <<storeVars, clock, mark, pages, imp, syncVars>>

CallParse ==
    /\ ret.op = "Generate"
    /\ LET r == Parse(ret.val)
       IN  ret' = [op |-> "Parse", err |-> r.err, id |-> 0, val |-> r.feeds]
    /\ UNCHANGED <<storeVars, query, clock, mark, pages, imp, syncVars>>

OpmlNext ==
    \/ \E list \in FeedLists : CallGenerate(list)
    \/ CallParse

SpecOpml == StoreInit /\ [][OpmlNext]_vars

(***************************************************************************)
(* The normalizer: Fetcher.convert and Fetcher.convertItem.  A parsed item *)
(* (gofeed.Item) carries GUID, Title, Link, Content, Description and the   *)
(* two parsed dates, NoTime standing for a nil date.                       *)
(***************************************************************************)
\* entry.GUID = item.GUID, the link never taken in its place
convertItemNoFallback(item, now) ==
    [ID |-> 0,
     FeedID |-> 0,
     GUID |-> item.GUID,
     Title |-> item.Title,
     Link |-> item.Link,
     Content |-> IF item.Content # "" THEN item.Content
                 ELSE IF item.Description # "" THEN item.Description
                 ELSE "",
     Published |-> IF item.PublishedParsed # NoTime THEN item.PublishedParsed
                   ELSE IF item.UpdatedParsed # NoTime THEN item.UpdatedParsed
                   ELSE now,
     IsRead |-> FALSE]

\* IsRead: true
convertItemAsRead(item, now) ==
    [ID |-> 0,
     FeedID |-> 0,
     GUID |-> IF item.GUID = "" THEN item.Link ELSE item.GUID,
     Title |-> item.Title,
     Link |-> item.Link,
     Content |-> IF item.Content # "" THEN item.Content
                 ELSE IF item.Description # "" THEN item.Description
                 ELSE "",
     Published |-> IF item.PublishedParsed # NoTime THEN item.PublishedParsed
                   ELSE IF item.UpdatedParsed # NoTime THEN item.UpdatedParsed
                   ELSE now,
     IsRead |-> TRUE]

convertItem(item, now) ==
    [ID |-> 0,
     FeedID |-> 0,
     GUID |-> IF item.GUID = "" THEN item.Link ELSE item.GUID,
     Title |-> item.Title,
     Link |-> item.Link,
     Content |-> IF item.Content # "" THEN item.Content
                 ELSE IF item.Description # "" THEN item.Description
                 ELSE "",
     Published |-> IF item.PublishedParsed # NoTime THEN item.PublishedParsed
                   ELSE IF item.UpdatedParsed # NoTime THEN item.UpdatedParsed
                   ELSE now,
     IsRead |-> FALSE]

convert(items, now) == [i \in 1 .. Len(items) |-> convertItem(items[i], now)]

(***************************************************************************)
(* What a fetch may bring: an error, no answer at all, or a parsed feed.   *)
(***************************************************************************)
ItemA ==
    [GUID |-> "", Title |-> "a", Link |-> "l1", Content |-> "",
     Description |-> "", PublishedParsed |-> 2 * TicksPerSecond,
     UpdatedParsed |-> NoTime]

\* the natural key of ItemA, other texts
ItemA2 ==
    [GUID |-> "l1", Title |-> "b", Link |-> "l2", Content |-> "body",
     Description |-> "", PublishedParsed |-> NoTime,
     UpdatedParsed |-> 2 * TicksPerSecond - 1]

ItemB ==
    [GUID |-> "", Title |-> "a", Link |-> "l2", Content |-> "",
     Description |-> "body", PublishedParsed |-> 2 * TicksPerSecond,
     UpdatedParsed |-> NoTime]

Payloads == {<<>>, <<ItemA>>, <<ItemA2>>, <<ItemA, ItemB>>, <<ItemA, ItemA2>>}

FetchOutcomes ==
    {[kind |-> "error", items |-> <<>>], [kind |-> "hang", items |-> <<>>]}
        \cup {[kind |-> "ok", items |-> p] : p \in Payloads}

(***************************************************************************)
(* updateFeeds: the command and its goroutines.                            *)
(***************************************************************************)
\* sem := make(chan struct{}, 50)
SemCap == 50

\* GetAllFeeds: SELECT ... FROM feeds, the rows in rowid order
GetAllFeeds(fs) ==
    LET ids == {r.id : r \in fs}
        nth[i \in 0 .. Cardinality(ids)] ==
            IF i = 0 THEN 0
            ELSE CHOOSE x \in ids : x > nth[i - 1] /\ \A y \in ids : y > nth[i - 1] => x <= y
    IN  [i \in 1 .. Cardinality(ids) |-> ScanFeed(CHOOSE r \in fs : r.id = nth[i])]

\* had is kept for the properties: the number of rows the store held for
\* the task's feed when its fetch returned.
NewTask ==
    [pc |-> "idle", kind |-> "none", items |-> <<>>, entries |-> <<>>, i |-> 1,
     newEntries |-> 0, had |-> 0]

\* The command that updates all feeds whatever id it is given
StartSyncAll(feedID) ==
    /\ mainPc \in {"idle", "returned", "failed"}
    /\ runs < MaxRuns
    /\ runs' = runs + 1
    /\ prev' = IF mainPc = "returned" /\ clean
               THEN [id \in {feedsToUpdate[k].ID : k \in {j \in DOMAIN task : task[j].kind = "ok"}} |->
                        LET k == CHOOSE j \in DOMAIN task : feedsToUpdate[j].ID = id
                        IN  [items |-> task[k].items,
                             count |-> Cardinality({r \in entries : r.feed_id = id})]]
               ELSE <<>>
    /\ clean' = TRUE
    /\ IF feedID > 0 /\ GetFeed(feeds, feedID).err
       THEN /\ mainPc' = "failed"
            /\ feedsToUpdate' = <<>>
       ELSE /\ mainPc' = "dispatch"
            /\ feedsToUpdate' = GetAllFeeds(feeds)
    /\ next' = 1
    /\ task' = [k \in DOMAIN feedsToUpdate' |-> NewTask]
    /\ sem' = 0
    /\ mu' = 0
    /\ wg' = 0
    /\ results' = <<>>
    /\ totalNewEntries' = 0
    /\ report' = <<>>
    /\ UNCHANGED <<storeVars, ret, askVars, crowd, ops>>

\* The command starts: it resolves the feeds to update (one by id, or all)
StartSync(feedID) ==
    /\ mainPc \in {"idle", "returned", "failed"}
    /\ runs < MaxRuns
    /\ runs' = runs + 1
    /\ prev' = IF mainPc = "returned" /\ clean
               THEN [id \in {feedsToUpdate[k].ID : k \in {j \in DOMAIN task : task[j].kind = "ok"}} |->
                        LET k == CHOOSE j \in DOMAIN task : feedsToUpdate[j].ID = id
                        IN  [items |-> task[k].items,
                             count |-> Cardinality({r \in entries : r.feed_id = id})]]
               ELSE <<>>
    /\ clean' = TRUE
    /\ IF feedID > 0 /\ GetFeed(feeds, feedID).err
       THEN /\ mainPc' = "failed"
            /\ feedsToUpdate' = <<>>
       ELSE /\ mainPc' = "dispatch"
            /\ feedsToUpdate' = IF feedID > 0 THEN GetFeed(feeds, feedID).val
                                ELSE GetAllFeeds(feeds)
    /\ next' = 1
    /\ task' = [k \in DOMAIN feedsToUpdate' |-> NewTask]
    /\ sem' = 0
    /\ mu' = 0
    /\ wg' = 0
    /\ results' = <<>>
    /\ totalNewEntries' = 0
    /\ report' = <<>>
    /\ UNCHANGED <<storeVars, ret, askVars, crowd, ops>>

\* for _, f := range feedsToUpdate { wg.Add(1); go func(...) }
Dispatch ==
    /\ mainPc = "dispatch"
    /\ IF next <= Len(feedsToUpdate)
       THEN /\ wg' = wg + 1
            /\ task' = [task EXCEPT ![next].pc = "acquire"]
            /\ next' = next + 1
            /\ UNCHANGED mainPc
       ELSE /\ mainPc' = "wait"
            /\ UNCHANGED <<wg, task, next>>
    /\ UNCHANGED <<storeVars, ret, askVars, crowd, feedsToUpdate, sem, mu, results, totalNewEntries,
                   report, runs, ops, clean, prev>>

\* sem <- struct{}{}
Acquire(k) ==
    /\ task[k].pc = "acquire"
    /\ sem < SemCap
    /\ sem' = sem + 1
    /\ task' = [task EXCEPT ![k].pc = "fetch"]
    /\ UNCHANGED <<storeVars, ret, askVars, crowd, mainPc, feedsToUpdate, next, mu, wg, results,
                   totalNewEntries, report, runs, ops, clean, prev>>

\* _, entries, err := fetcher.Fetch(feedToUpdate.URL)
Fetch(k) ==
    /\ task[k].pc = "fetch"
    /\ \E o \in FetchOutcomes, now \in Times :
          task' = [task EXCEPT ![k] =
                      [pc |-> CASE o.kind = "hang" -> "hung"
                                [] o.kind = "error" -> "lock"
                                [] OTHER -> IF o.items = <<>> THEN "lock" ELSE "save",
                       kind |-> o.kind,
                       items |-> o.items,
                       entries |-> convert(o.items, now),
                       i |-> 1,
                       newEntries |-> 0,
                       had |-> Cardinality({r \in entries :
                                               r.feed_id = feedsToUpdate[k].ID})]]
    /\ UNCHANGED <<storeVars, ret, askVars, crowd, mainPc, feedsToUpdate, next, sem, mu, wg, results,
                   totalNewEntries, report, runs, ops, clean, prev>>

\* The loop over entries left at the first SaveEntry that fails
SaveOneStopOnError(k) ==
    /\ task[k].pc = "save"
    /\ LET t == task[k]
           e == [t.entries[t.i] EXCEPT !.FeedID = feedsToUpdate[k].ID]
           r == SaveEntry(feeds, entries, seqEntries, e)
       IN  /\ entries' = r.entries
           /\ seqEntries' = r.seq
           /\ task' = [task EXCEPT ![k] =
                          [t EXCEPT !.entries[t.i] = r.e,
                                    !.newEntries = IF r.err THEN @ ELSE @ + 1,
                                    !.i = @ + 1,
                                    !.pc = IF r.err \/ t.i = Len(t.entries) THEN "lock"
                                           ELSE "save"]]
    /\ UNCHANGED <<feeds, seqFeeds, ret, askVars, crowd, mainPc, feedsToUpdate, next, sem, mu, wg,
                   results, totalNewEntries, report, runs, ops, clean, prev>>

\* One pass of the loop over entries: entry.FeedID = feedToUpdate.ID, then
\* SaveEntry; an error skips the entry
SaveOne(k) ==
    /\ task[k].pc = "save"
    /\ LET t == task[k]
           e == [t.entries[t.i] EXCEPT !.FeedID = feedsToUpdate[k].ID]
           r == SaveEntry(feeds, entries, seqEntries, e)
       IN  /\ entries' = r.entries
           /\ seqEntries' = r.seq
           /\ task' = [task EXCEPT ![k] =
                          [t EXCEPT !.entries[t.i] = r.e,
                                    !.newEntries = IF r.err THEN @ ELSE @ + 1,
                                    !.i = @ + 1,
                                    !.pc = IF t.i = Len(t.entries) THEN "lock" ELSE "save"]]
    /\ UNCHANGED <<feeds, seqFeeds, ret, askVars, crowd, mainPc, feedsToUpdate, next, sem, mu, wg,
                   results, totalNewEntries, report, runs, ops, clean, prev>>

\* The section entered without waiting for the mutex
LockNoWait(k) ==
    /\ task[k].pc = "lock"
    /\ mu' = k
    /\ task' = [task EXCEPT ![k].pc = "write"]
    /\ UNCHANGED <<storeVars, ret, askVars, crowd, mainPc, feedsToUpdate, next, sem, wg, results,
                   totalNewEntries, report, runs, ops, clean, prev>>

\* mu.Lock()
Lock(k) ==
    /\ task[k].pc = "lock"
    /\ mu = 0
    /\ mu' = k
    /\ task' = [task EXCEPT ![k].pc = "write"]
    /\ UNCHANGED <<storeVars, ret, askVars, crowd, mainPc, feedsToUpdate, next, sem, wg, results,
                   totalNewEntries, report, runs, ops, clean, prev>>

\* A failed fetch reported as a feed with no entries
ResultOfCountsOnly(t) ==
    [new_entries |-> t.newEntries, total_entries |-> Len(t.entries)]

\* Every item of the payload reported as new
ResultOfEveryItemNew(t) ==
    IF t.kind = "error"
    THEN [error |-> "failed to fetch feed"]
    ELSE [new_entries |-> Len(t.entries), total_entries |-> Len(t.entries)]

\* The entry a goroutine writes into results
ResultOf(t) ==
    IF t.kind = "error"
    THEN [error |-> "failed to fetch feed"]
    ELSE [new_entries |-> t.newEntries, total_entries |-> Len(t.entries)]

\* totalNewEntries = newEntries in place of +=
WriteOverwrite(k) ==
    /\ task[k].pc = "write"
    /\ totalNewEntries' = IF task[k].kind = "error" THEN totalNewEntries
                          ELSE task[k].newEntries
    /\ results' = [u \in DOMAIN results \cup {feedsToUpdate[k].URL} |->
                      IF u = feedsToUpdate[k].URL THEN ResultOf(task[k]) ELSE results[u]]
    /\ mu' = 0
    /\ task' = [task EXCEPT ![k].pc = "release"]
    /\ UNCHANGED <<storeVars, ret, askVars, crowd, mainPc, feedsToUpdate, next, sem, wg, report, runs,
                   ops, clean, prev>>

\* totalNewEntries += newEntries; results[feedToUpdate.URL] = ...; mu.Unlock()
Write(k) ==
    /\ task[k].pc = "write"
    /\ totalNewEntries' = IF task[k].kind = "error" THEN totalNewEntries
                          ELSE totalNewEntries + task[k].newEntries
    /\ results' = [u \in DOMAIN results \cup {feedsToUpdate[k].URL} |->
                      IF u = feedsToUpdate[k].URL THEN ResultOf(task[k]) ELSE results[u]]
    /\ mu' = 0
    /\ task' = [task EXCEPT ![k].pc = "release"]
    /\ UNCHANGED <<storeVars, ret, askVars, crowd, mainPc, feedsToUpdate, next, sem, wg, report, runs,
                   ops, clean, prev>>

\* defer func() { <-sem }()
Release(k) ==
    /\ task[k].pc = "release"
    /\ sem' = sem - 1
    /\ task' = [task EXCEPT ![k].pc = "exit"]
    /\ UNCHANGED <<storeVars, ret, askVars, crowd, mainPc, feedsToUpdate, next, mu, wg, results,
                   totalNewEntries, report, runs, ops, clean, prev>>

\* A goroutine that ends without wg.Done()
DoneForgotten(k) ==
    /\ task[k].pc = "exit"
    /\ task' = [task EXCEPT ![k].pc = "done"]
    /\ UNCHANGED <<storeVars, ret, askVars, crowd, mainPc, feedsToUpdate, next, sem, mu, wg, results,
                   totalNewEntries, report, runs, ops, clean, prev>>

\* defer wg.Done()
Done(k) ==
    /\ task[k].pc = "exit"
    /\ wg' = wg - 1
    /\ task' = [task EXCEPT ![k].pc = "done"]
    /\ UNCHANGED <<storeVars, ret, askVars, crowd, mainPc, feedsToUpdate, next, sem, mu, results,
                   totalNewEntries, report, runs, ops, clean, prev>>

\* The aggregate written without wg.Wait()
ReturnNoWait ==
    /\ mainPc = "wait"
    /\ mainPc' = "returned"
    /\ report' = [updated_feeds |-> Len(feedsToUpdate),
                  total_new_entries |-> totalNewEntries,
                  results |-> results]
    /\ UNCHANGED <<storeVars, ret, askVars, crowd, feedsToUpdate, next, task, sem, mu, wg, results,
                   totalNewEntries, runs, ops, clean, prev>>

\* wg.Wait() returns; outputJSON of the aggregate
Return ==
    /\ mainPc = "wait"
    /\ wg = 0
    /\ mainPc' = "returned"
    /\ report' = [updated_feeds |-> Len(feedsToUpdate),
                  total_new_entries |-> totalNewEntries,
                  results |-> results]
    /\ UNCHANGED <<storeVars, ret, askVars, crowd, feedsToUpdate, next, task, sem, mu, wg, results,
                   totalNewEntries, runs, ops, clean, prev>>

TaskStep(k) ==
    \/ Acquire(k)
    \/ Fetch(k)
    \/ SaveOne(k)
    \/ Lock(k)
    \/ Write(k)
    \/ Release(k)
    \/ Done(k)

SyncStep ==
    \/ Dispatch
    \/ \E k \in DOMAIN task : TaskStep(k)
    \/ Return

(***************************************************************************)
(* Spec: update commands on a database that holds some feeds, with Store   *)
(* calls of other commands in between.                                     *)
(***************************************************************************)
SyncFeeds(n) ==
    {FeedRow(i, [ID |-> 0, URL |-> URLNames[i], Title |-> "T",
                 Category |-> "", ETag |-> "", LastModified |-> ""]) : i \in 1 .. n}

Init ==
    /\ SyncIdle
    /\ \E n \in 0 .. MaxFeeds : feeds = SyncFeeds(n) /\ seqFeeds = n
    /\ entries = {}
    /\ seqEntries = 0
    /\ ret = NoCall
    /\ AskIdle

Next ==
    \/ \E feedID \in 0 .. MaxFeeds : StartSync(feedID)
    \/ SyncStep

Spec == Init /\ [][Next]_vars

(***************************************************************************)
(* SpecAll: one update command with the Store calls of other commands      *)
(* (add, import, remove, mark-read, ...) interleaved with its goroutines.  *)
(***************************************************************************)
OtherFeedInputs == {f \in FeedInputs : f.Title = "" /\ f.Category = ""}

OtherEntryInputs ==
    {[ID |-> id, FeedID |-> fid, GUID |-> g, Title |-> "b", Link |-> "l2",
      Content |-> "", Published |-> 2 * TicksPerSecond, IsRead |-> b] :
        id \in 0 .. MaxEntries, fid \in 1 .. MaxFeeds, g \in {"l1", "l2"},
        b \in BOOLEAN}

OtherCall ==
    \/ \E f \in OtherFeedInputs : CallSaveFeed(f)
    \/ \E id \in 1 .. MaxFeeds : CallDeleteFeed(id)
    \/ \E e \in OtherEntryInputs : CallSaveEntry(e)
    \/ \E id \in 1 .. MaxEntries, isRead \in BOOLEAN : CallMarkEntryRead(id, isRead)

Other ==
    /\ ops < MaxOps
    /\ ops' = ops + 1
    /\ clean' = FALSE
    /\ OtherCall
    /\ UNCHANGED <<mainPc, feedsToUpdate, next, task, sem, mu, wg, results,
                   totalNewEntries, report, runs, prev, crowd, askVars>>

AllNext ==
    \/ Other
    \/ \E feedID \in 0 .. MaxFeeds : runs = 0 /\ StartSync(feedID)
    \/ SyncStep

SpecAll == Init /\ [][AllNext]_vars

(***************************************************************************)
(* SpecFair: one update command under the scheduling Go gives it: the      *)
(* command and every goroutine that can take a step eventually takes it.   *)
(* A fetch that brings no answer leaves its goroutine with no step.        *)
(***************************************************************************)
FairNext ==
    \/ \E feedID \in 0 .. MaxFeeds : runs = 0 /\ StartSync(feedID)
    \/ SyncStep

SpecFair ==
    /\ Init
    /\ [][FairNext]_vars
    /\ WF_vars(Dispatch)
    /\ WF_vars(Return)
    /\ \A k \in 1 .. MaxFeeds : WF_vars(k \in DOMAIN task /\ TaskStep(k))

(***************************************************************************)
(* SpecImport: importOPML of a file, and of the same file again, into a    *)
(* store of up to MaxFeeds feeds.                                          *)
(***************************************************************************)
\* &model.Feed{URL: ..., Title: ..., Category: ...} as extractFeeds builds it
NewFeed(f) ==
    [ID |-> 0, URL |-> f.URL, Title |-> f.Title, Category |-> f.Category,
     ETag |-> "", LastModified |-> ""]

importFrame == <<entries, seqEntries, ret, query, clock, mark, pages, syncVars>>

\* feeds, err := opml.Parse(file), for a file that Generate wrote
ImportParse(doc) ==
    /\ imp' = [imp EXCEPT !.pc = IF Parse(doc).err THEN "failed" ELSE "loop",
                          !.file = doc,
                          !.feeds = Parse(doc).feeds,
                          !.i = 1,
                          !.imported = 0,
                          !.skipped = 0,
                          !.errors = <<>>,
                          !.round = @ + 1,
                          !.had = Cardinality(feeds),
                          !.before = feeds]
    /\ UNCHANGED <<feeds, seqFeeds, importFrame>>

ImportFile ==
    /\ imp.pc = "idle"
    /\ \E list \in FeedLists : \E doc \in Generate(list, clock) : ImportParse(doc)

ImportAgain ==
    /\ imp.pc = "returned"
    /\ imp.round < MaxImports
    /\ ImportParse(imp.file)

\* The loop left at the first SaveFeed that fails
ImportOneStopOnError ==
    /\ imp.pc = "loop"
    /\ imp.i <= Len(imp.feeds)
    /\ LET r == SaveFeed(feeds, seqFeeds, NewFeed(imp.feeds[imp.i]))
       IN  /\ feeds' = r.feeds
           /\ seqFeeds' = r.seq
           /\ imp' = IF r.err
                     THEN [imp EXCEPT !.i = Len(imp.feeds) + 1,
                                      !.skipped = @ + 1,
                                      !.errors = Append(@, imp.feeds[imp.i].URL)]
                     ELSE [imp EXCEPT !.i = @ + 1, !.imported = @ + 1]
    /\ UNCHANGED importFrame

\* One pass of the loop: s.SaveFeed(newFeed); an error skips the feed
ImportOne ==
    /\ imp.pc = "loop"
    /\ imp.i <= Len(imp.feeds)
    /\ LET r == SaveFeed(feeds, seqFeeds, NewFeed(imp.feeds[imp.i]))
       IN  /\ feeds' = r.feeds
           /\ seqFeeds' = r.seq
           /\ imp' = IF r.err
                     THEN [imp EXCEPT !.i = @ + 1,
                                      !.skipped = @ + 1,
                                      !.errors = Append(@, imp.feeds[imp.i].URL)]
                     ELSE [imp EXCEPT !.i = @ + 1, !.imported = @ + 1]
    /\ UNCHANGED importFrame

\* outputJSON of imported, skipped, total and errors
ImportReturn ==
    /\ imp.pc = "loop"
    /\ imp.i > Len(imp.feeds)
    /\ imp' = [imp EXCEPT !.pc = "returned"]
    /\ UNCHANGED <<feeds, seqFeeds, importFrame>>

ImportNext ==
    \/ ImportFile
    \/ ImportAgain
    \/ ImportOne
    \/ ImportReturn

SpecImport == Init /\ [][ImportNext]_vars

(***************************************************************************)
(* SpecRace: two callers stand before s.SaveEntry(entry) with entries of   *)
(* ID 0 and one (feed_id, guid) pair that the store does not hold; each    *)
(* call is one INSERT, and the two INSERTs run in either order.            *)
(***************************************************************************)
NewEntries == {e \in EntryInputs : e.ID = 0}

RaceInit ==
    /\ feeds = SyncFeeds(MaxFeeds)
    /\ seqFeeds = MaxFeeds
    /\ \E a, b \in NewEntries :
          /\ a.FeedID = b.FeedID
          /\ a.GUID = b.GUID
          /\ task = [c \in 1 .. 2 |->
                        [pc |-> "call", e |-> IF c = 1 THEN a ELSE b, err |-> FALSE]]
          /\ \/ entries = {} /\ seqEntries = 0
             \/ \E o \in NewEntries :
                   /\ ~ (o.FeedID = a.FeedID /\ o.GUID = a.GUID)
                   /\ entries = {EntryRow(1, o)}
                   /\ seqEntries = 1
    /\ ret = NoCall
    /\ AskIdle
    /\ mainPc = "idle"
    /\ feedsToUpdate = <<>>
    /\ next = 1
    /\ sem = 0
    /\ mu = 0
    /\ wg = 0
    /\ results = <<>>
    /\ totalNewEntries = 0
    /\ report = <<>>
    /\ runs = 0
    /\ ops = 0
    /\ clean = TRUE
    /\ prev = <<>>
    /\ crowd = <<>>

\* if err := s.SaveEntry(entry); err != nil
RaceCall(c) ==
    /\ task[c].pc = "call"
    /\ LET r == SaveEntry(feeds, entries, seqEntries, task[c].e)
       IN  /\ entries' = r.entries
           /\ seqEntries' = r.seq
           /\ task' = [task EXCEPT ![c] = [pc |-> "returned", e |-> r.e, err |-> r.err]]
    /\ UNCHANGED <<feeds, seqFeeds, ret, askVars, mainPc, feedsToUpdate, next, sem, mu, wg,
                   results, totalNewEntries, report, runs, ops, clean, prev, crowd>>

RaceNext == \E c \in 1 .. 2 : RaceCall(c)

SpecRace == RaceInit /\ [][RaceNext]_vars

(***************************************************************************)
(* SpecGate: the admission gate of updateFeeds for up to MaxSources feeds. *)
(* The goroutines run the same code, so the state keeps the number of      *)
(* goroutines at each place instead of each goroutine's own place:         *)
(*   acquire  dispatched, about to send on sem                             *)
(*   fetch    holds a token: fetching, saving or recording its result      *)
(*   hung     holds a token, in a fetch that brings no answer              *)
(*   done     has given its token back and called wg.Done()                *)
(* The state after the dispatch loop is the first state.                   *)
(***************************************************************************)
GateInit ==
    /\ feeds = {}
    /\ entries = {}
    /\ seqFeeds = 0
    /\ seqEntries = 0
    /\ ret = NoCall
    /\ AskIdle
    /\ mainPc = "wait"
    /\ feedsToUpdate = <<>>
    /\ next = 1
    /\ task = <<>>
    /\ sem = 0
    /\ mu = 0
    /\ \E n \in 0 .. MaxSources :
          /\ wg = n
          /\ crowd = [acquire |-> n, fetch |-> 0, hung |-> 0, done |-> 0]
    /\ results = <<>>
    /\ totalNewEntries = 0
    /\ report = <<>>
    /\ runs = 1
    /\ ops = 0
    /\ clean = TRUE
    /\ prev = <<>>

gateFrame == <<storeVars, ret, askVars, feedsToUpdate, next, task, mu, results,
               totalNewEntries, report, runs, ops, clean, prev>>

\* sem <- struct{}{} with no room in the channel never waited for
GateAcquireUnbounded ==
    /\ crowd.acquire > 0
    /\ sem' = sem + 1
    /\ crowd' = [crowd EXCEPT !.acquire = @ - 1, !.fetch = @ + 1]
    /\ UNCHANGED <<gateFrame, mainPc, wg>>

\* sem <- struct{}{}
GateAcquire ==
    /\ crowd.acquire > 0
    /\ sem < SemCap
    /\ sem' = sem + 1
    /\ crowd' = [crowd EXCEPT !.acquire = @ - 1, !.fetch = @ + 1]
    /\ UNCHANGED <<gateFrame, mainPc, wg>>

\* fetcher.Fetch never returns
GateHang ==
    /\ crowd.fetch > 0
    /\ crowd' = [crowd EXCEPT !.fetch = @ - 1, !.hung = @ + 1]
    /\ UNCHANGED <<gateFrame, mainPc, sem, wg>>

\* The goroutine ends with its token left in the channel
GateFinishKeepsToken ==
    /\ crowd.fetch > 0
    /\ wg' = wg - 1
    /\ crowd' = [crowd EXCEPT !.fetch = @ - 1, !.done = @ + 1]
    /\ UNCHANGED <<gateFrame, mainPc, sem>>

\* The goroutine ends without wg.Done()
GateFinishNoDone ==
    /\ crowd.fetch > 0
    /\ sem' = sem - 1
    /\ crowd' = [crowd EXCEPT !.fetch = @ - 1, !.done = @ + 1]
    /\ UNCHANGED <<gateFrame, mainPc, wg>>

\* The goroutine runs to its end: <-sem, then wg.Done()
GateFinish ==
    /\ crowd.fetch > 0
    /\ sem' = sem - 1
    /\ wg' = wg - 1
    /\ crowd' = [crowd EXCEPT !.fetch = @ - 1, !.done = @ + 1]
    /\ UNCHANGED <<gateFrame, mainPc>>

\* wg.Wait() returns
GateReturn ==
    /\ mainPc = "wait"
    /\ wg = 0
    /\ mainPc' = "returned"
    /\ UNCHANGED <<gateFrame, sem, wg, crowd>>

GateNext ==
    \/ GateAcquire
    \/ GateHang
    \/ GateFinish
    \/ GateReturn

SpecGate == GateInit /\ [][GateNext]_vars

\* The gate with one feed, with as many feeds as the channel has room for,
\* and with MaxSources feeds.  A goroutine that can send into the channel
\* does, a fetch that is not one that never returns does return and its
\* goroutine runs to its end, and wg.Wait() returns once the counter is 0.
GateFairInit ==
    /\ GateInit
    /\ crowd.acquire \in {1, SemCap, MaxSources}

SpecGateFair ==
    /\ GateFairInit
    /\ [][GateNext]_vars
    /\ WF_vars(GateAcquire)
    /\ WF_vars(GateFinish)
    /\ WF_vars(GateReturn)

(***************************************************************************)
(* Properties.                                                             *)
(***************************************************************************)
\* Number of persisted entries of feed id
CountOf(id) == Cardinality({r \in entries : r.feed_id = id})

\* Tasks of the current run whose fetch brought the payload the previous,
\* undisturbed run fetched for the same feed
Refetched ==
    {k \in DOMAIN task :
        /\ feedsToUpdate[k].ID \in DOMAIN prev
        /\ task[k].kind = "ok"
        /\ task[k].items = prev[feedsToUpdate[k].ID].items}

\* C1: Idempotent sync.  When an update has returned and the run before it
\* fetched the same payload for a feed, with no other command touching the
\* store since that run began, the feed's report entry has new_entries = 0
\* and the feed has as many persisted entries as after the run before.
C1_IdempotentSync ==
    (mainPc = "returned" /\ clean) =>
        \A k \in Refetched :
            /\ report.results[feedsToUpdate[k].URL].new_entries = 0
            /\ CountOf(feedsToUpdate[k].ID) = prev[feedsToUpdate[k].ID].count

C1_Witness ==
    /\ mainPc = "returned"
    /\ clean
    /\ \E k \in Refetched :
          /\ Len(task[k].items) = 2
          /\ prev[feedsToUpdate[k].ID].count = 2

\* C2: In every reachable state no two persisted entries have the same
\* (feed_id, guid) pair, whatever SaveEntry (insert or update), SaveFeed,
\* DeleteFeed, MarkEntryRead calls and update runs came before.
C2_EntryKeyUnique ==
    \A a, b \in entries : (a.feed_id = b.feed_id /\ a.guid = b.guid) => a = b

\* An UPDATE that would have moved a row onto another row's pair was refused
C2_Witness ==
    /\ Cardinality(entries) >= 2
    /\ ret.op = "SaveEntry"
    /\ ret.err
    /\ ret.id # 0

\* C3: SaveEntry of an entry with ID = 0 whose (feed_id, guid) pair is
\* already stored returns an error, adds no row, leaves every stored row as
\* it was, leaves the entry's ID at 0, and the store holds exactly one row
\* of the pair.
C3_DuplicateInsertRejected ==
    [][\A e \in EntryInputs :
          (/\ e.ID = 0
           /\ \E r \in entries : r.feed_id = e.FeedID /\ r.guid = e.GUID
           /\ CallSaveEntry(e))
          => (/\ ret'.err
              /\ ret'.id = 0
              /\ entries' = entries
              /\ seqEntries' = seqEntries
              /\ Cardinality({r \in entries' : r.feed_id = e.FeedID /\ r.guid = e.GUID}) = 1)]_vars

\* An INSERT has just been refused
C3_Witness ==
    /\ ret.op = "SaveEntry"
    /\ ret.err
    /\ ret.id = 0
    /\ entries # {}

RECURSIVE SumNewEntries(_)
\* Sum of the goroutines' newEntries over the tasks K
SumNewEntries(K) ==
    IF K = {} THEN 0
    ELSE LET k == CHOOSE x \in K : TRUE
         IN  task[k].newEntries + SumNewEntries(K \ {k})

\* Every entry the task of feed k fetched is persisted under the feed
Persisted(k) ==
    \A i \in 1 .. Len(task[k].entries) :
        \E r \in entries : /\ r.feed_id = feedsToUpdate[k].ID
                           /\ r.guid = task[k].entries[i].GUID

\* C4: Failure isolation.  When an update has returned, every feed whose
\* fetch succeeded has a report entry of new_entries and total_entries and
\* its entries persisted, every feed whose fetch failed has a report entry
\* holding only an error, and total_new_entries counts the successful
\* feeds' new entries only.
C4_FailureIsolation ==
    mainPc = "returned" =>
        /\ \A k \in DOMAIN task :
              LET res == report.results[feedsToUpdate[k].URL]
              IN  /\ task[k].kind = "ok" =>
                        /\ DOMAIN res = {"new_entries", "total_entries"}
                        /\ res.new_entries = task[k].newEntries
                        /\ res.total_entries = Len(task[k].items)
                        /\ Persisted(k)
                  /\ task[k].kind = "error" => DOMAIN res = {"error"}
        /\ report.total_new_entries =
              SumNewEntries({k \in DOMAIN task : task[k].kind = "ok"})

\* One feed failed, the other brought new entries
C4_Witness ==
    /\ mainPc = "returned"
    /\ \E k \in DOMAIN task : task[k].kind = "error"
    /\ \E k \in DOMAIN task : task[k].kind = "ok" /\ task[k].newEntries > 0
    /\ report.total_new_entries > 0

\* C5: Bounded parallelism.  At most SemCap = 50 goroutines are between
\* acquiring and releasing the slot, for any number of feeds.
C5_BoundedParallelism == crowd.fetch + crowd.hung <= SemCap

\* The gate is full and a goroutine waits at it
C5_Witness ==
    /\ crowd.fetch + crowd.hung = SemCap
    /\ crowd.acquire > 0

\* C6: No early return.  The aggregate is written only when every
\* dispatched goroutine has ended, and it then holds exactly one entry for
\* every dispatched feed, keyed by its URL, either counts or an error.
C6_NoEarlyReturn ==
    mainPc = "returned" =>
        /\ \A k \in DOMAIN task : task[k].pc = "done"
        /\ DOMAIN report.results = {feedsToUpdate[k].URL : k \in DOMAIN task}
        /\ Cardinality(DOMAIN report.results) = Len(feedsToUpdate)
        /\ report.updated_feeds = Len(feedsToUpdate)
        /\ \A u \in DOMAIN report.results :
              \/ DOMAIN report.results[u] = {"new_entries", "total_entries"}
              \/ DOMAIN report.results[u] = {"error"}

\* An update of two feeds has returned
C6_Witness ==
    /\ mainPc = "returned"
    /\ Len(feedsToUpdate) = 2
    /\ Cardinality(DOMAIN report.results) = 2

RECURSIVE SumReported(_, _)
\* Sum of new_entries over the entries of res, keyed by U, that hold counts
SumReported(res, U) ==
    IF U = {} THEN 0
    ELSE LET u == CHOOSE x \in U : TRUE
         IN  (IF "new_entries" \in DOMAIN res[u] THEN res[u].new_entries ELSE 0)
                + SumReported(res, U \ {u})

\* C7: When an update has returned, total_new_entries is the sum of
\* new_entries over the report entries of the feeds that succeeded.
C7_TotalIsSum ==
    mainPc = "returned" =>
        report.total_new_entries = SumReported(report.results, DOMAIN report.results)

\* Two feeds both brought new entries
C7_Witness ==
    /\ mainPc = "returned"
    /\ \A u \in {"u1", "u2"} :
          /\ u \in DOMAIN report.results
          /\ "new_entries" \in DOMAIN report.results[u]
          /\ report.results[u].new_entries > 0

SomeFetchHangs == \E k \in DOMAIN task : task[k].pc = "hung"

\* C8 as stated: an update that has started eventually returns, even when
\* the fetch of some feed never returns.
C8_AlwaysTerminates == (mainPc = "dispatch") ~> (mainPc = "returned")

\* C8 amended: an update that has started eventually returns unless the
\* fetch of some feed never returns; fetches that fail do not keep it from
\* returning.
C8_TerminatesUnlessHung ==
    (mainPc = "dispatch") ~> (mainPc = "returned" \/ SomeFetchHangs)

\* An update has returned although a fetch failed
C8_Witness ==
    /\ mainPc = "returned"
    /\ \E k \in DOMAIN task : task[k].kind = "error"
    /\ ~ SomeFetchHangs

FeedURLUnique == \A a, b \in feeds : a.url = b.url => a = b

\* C9: SaveFeed of a feed with ID = 0 whose URL a stored feed holds returns
\* an error and leaves the store as it was; and in every reachable state no
\* two stored feeds share a URL, also after SaveFeed updates that change a
\* URL.
C9_FeedURLUnique ==
    /\ []FeedURLUnique
    /\ [][\A f \in FeedInputs :
             (/\ f.ID = 0
              /\ \E r \in feeds : r.url = f.URL
              /\ CallSaveFeed(f))
             => (/\ ret'.err
                 /\ ret'.id = 0
                 /\ feeds' = feeds
                 /\ seqFeeds' = seqFeeds
                 /\ entries' = entries)]_vars

\* An INSERT of a taken URL has just been refused, two feeds being stored
C9_Witness ==
    /\ ret.op = "SaveFeed"
    /\ ret.err
    /\ ret.id = 0
    /\ Cardinality(feeds) = 2

\* C10: The sequence GetEntries returns is in non-increasing order of
\* publication time, for every descriptor.
C10_NewestFirst ==
    ret.op = "GetEntries" =>
        \A i \in 1 .. Len(ret.val) - 1 : ret.val[i].Published >= ret.val[i + 1].Published

\* A result of three entries of three different publication times
C10_Witness ==
    /\ ret.op = "GetEntries"
    /\ Len(ret.val) = 3
    /\ ret.val[1].Published > ret.val[2].Published
    /\ ret.val[2].Published > ret.val[3].Published

(***************************************************************************)
(* Retrieval: the window, the filters.                                     *)
(***************************************************************************)
Min(a, b) == IF a < b THEN a ELSE b

Max(a, b) == IF a > b THEN a ELSE b

\* the rows the filters of the latest GetEntries let through
Asked == Matching(entries, query)

DistinctTimes(rows) == \A a, b \in rows : a.published = b.published => a = b

\* the row of id `id` stands at position pos (from 0) of the rows in
\* descending order of published
StandsAt(rows, id, pos) ==
    \E r \in rows :
        /\ r.id = id
        /\ Cardinality({x \in rows : x.published > r.published}) = pos

\* C11: when the matching rows have pairwise distinct publication times and
\* the descriptor has Limit L > 0 and Offset O >= 0, GetEntries returns the
\* rows at positions O .. min(O+L, N)-1 of the descending order, that is
\* max(0, min(L, N-O)) rows, and the window of (L, O+L) shares no row with it.
C11_PaginationWindow ==
    (ret.op = "GetEntries" /\ query.Limit > 0 /\ DistinctTimes(Asked)) =>
        /\ ~ ret.err
        /\ Len(ret.val) =
               Max(0, Min(query.Limit, Cardinality(Asked) - query.Offset))
        /\ \A i \in 1 .. Len(ret.val) :
               StandsAt(Asked, ret.val[i].ID, query.Offset + i - 1)
        /\ \A r \in GetEntries(entries,
                               [query EXCEPT !.Offset = query.Offset + query.Limit]) :
               /\ ~ r.err
               /\ \A i \in 1 .. Len(ret.val), j \in 1 .. Len(r.val) :
                      ret.val[i].ID # r.val[j].ID

\* A window cut short by the end: limit 2 at offset 2 of three rows of
\* three different times brings the last row alone
C11_Witness ==
    /\ ret.op = "GetEntries"
    /\ query.Limit = 2
    /\ query.Offset = 2
    /\ Cardinality(Asked) = 3
    /\ DistinctTimes(Asked)
    /\ Len(ret.val) = 1

\* C12: with Limit <= 0 and any Offset >= 0, GetEntries succeeds and returns
\* all the matching rows after the first Offset rows of the ordered result.
C12_UnboundedAfterSkip ==
    (ret.op = "GetEntries" /\ query.Limit <= 0) =>
        /\ ~ ret.err
        /\ Len(ret.val) = Max(0, Cardinality(Asked) - query.Offset)
        /\ \A i \in 1 .. Len(ret.val) : \E r \in Asked : r.id = ret.val[i].ID
        /\ \A i \in 1 .. Len(ret.val) - 1 :
               ret.val[i].Published >= ret.val[i + 1].Published

\* C13: with UnreadOnly set and no limit and no skip, GetEntries returns
\* exactly the stored entries whose read flag is false (and that pass the
\* since bound): each once, each returned entry unread.
C13_UnreadFilter ==
    (ret.op = "GetEntries" /\ query.UnreadOnly /\ query.Limit <= 0 /\ query.Offset = 0) =>
        /\ ~ ret.err
        /\ \A i \in 1 .. Len(ret.val) : ~ ret.val[i].IsRead
        /\ {ret.val[i].ID : i \in 1 .. Len(ret.val)} =
               {r.id : r \in {x \in entries :
                                 /\ x.is_read = 0
                                 /\ (query.SinceTime # NoTime =>
                                        x.published >= query.SinceTime)}}
        /\ \A i, j \in 1 .. Len(ret.val) : ret.val[i].ID = ret.val[j].ID => i = j

\* Of three stored entries, the two unread ones have been returned
C13_Witness ==
    /\ ret.op = "GetEntries"
    /\ query.UnreadOnly
    /\ query.Limit <= 0
    /\ query.Offset = 0
    /\ query.SinceTime = NoTime
    /\ Cardinality(entries) = 3
    /\ Len(ret.val) = 2

\* C14: with SinceTime = t, GetEntries returns an entry only if its
\* publication time in seconds is >= t, and (no limit, no skip, no unread
\* filter) returns every entry published at t or later, the ones published
\* exactly at t among them; with no SinceTime (no limit, no skip, no unread
\* filter) it returns every stored entry.
C14_SinceBound ==
    ret.op = "GetEntries" =>
        /\ query.SinceTime # NoTime =>
               \A i \in 1 .. Len(ret.val) :
                   Unix(ret.val[i].Published) >= query.SinceTime
        /\ (query.Limit <= 0 /\ query.Offset = 0 /\ ~ query.UnreadOnly) =>
               /\ ~ ret.err
               /\ \A r \in entries :
                      (query.SinceTime = NoTime \/ r.published >= query.SinceTime)
                          => \E i \in 1 .. Len(ret.val) : ret.val[i].ID = r.id

\* An entry published exactly at the bound has been returned, an earlier
\* one left out
C14_Witness ==
    /\ ret.op = "GetEntries"
    /\ query.SinceTime # NoTime
    /\ \E i \in 1 .. Len(ret.val) : Unix(ret.val[i].Published) = query.SinceTime
    /\ \E r \in entries : r.published < query.SinceTime

(***************************************************************************)
(* The composer.                                                           *)
(***************************************************************************)
\* a nonnegative decimal integer followed by one of d, w, m, y
ValidToken(s) ==
    \E u \in {"d", "w", "m", "y"} :
        \E n \in 1 .. Len(s) - 1 :
            /\ Len(s) = n + 1
            /\ s[n + 1] = u
            /\ \A i \in 1 .. n : s[i] \in {DigitChars[k] : k \in 1 .. 10}

\* the number a string of digits writes, exactly
NumberOf(digits) == AtoiFrom(digits, 1, FromNat(0, WideWidth))

\* n x 24h, n x 7 x 24h, n x 30 x 24h, n x 365 x 24h in nanoseconds, exactly
ExactDuration(s) ==
    LET n == NumberOf(SubSeq(s, 1, Len(s) - 1))
        u == s[Len(s)]
    IN  IF u = "d" THEN MulHour(MulSmall(n, 24))
        ELSE IF u = "w" THEN MulHour(MulSmall(n, 7 * 24))
        ELSE IF u = "m" THEN MulHour(MulSmall(n, 30 * 24))
        ELSE MulHour(MulSmall(n, 365 * 24))

\* C15: for every token made of a nonnegative decimal integer n and one
\* unit letter, ParseDuration returns no error and the duration n x 24h for
\* d, n x 7 x 24h for w, n x 30 x 24h for m, n x 365 x 24h for y.
C15_ParseDurationExact ==
    (ret.op = "ParseDuration" /\ ValidToken(query)) =>
        /\ ~ ret.err
        /\ Extend(ret.val[1], WideWidth) = ExactDuration(query)

\* C16: ParseDuration returns an error for every token that is not a
\* nonnegative integer followed by one of d, w, m, y (the empty string
\* too), and BuildQueryOptions returns an error for every such token that
\* is not empty.
C16_InvalidTokenRejected ==
    /\ (ret.op = "ParseDuration" /\ ~ ValidToken(query)) => ret.err
    /\ (ret.op = "BuildQueryOptions" /\ query.since # <<>> /\ ~ ValidToken(query.since))
           => ret.err

\* BuildQueryOptions has refused the token -7 followed by d
C16_Witness ==
    /\ ret.op = "BuildQueryOptions"
    /\ query.since = <<"-", "7", "d">>
    /\ ret.err

\* b seconds is the instant now - d cut to whole seconds:
\* b x 1s <= now - d < (b + 1) x 1s
WholeSeconds(b, now, d) ==
    LET t == Add(Add(MulSecond(FromNat(now.sec, WideWidth)),
                     FromNat(now.nsec, WideWidth)),
                 Neg(Extend(d, WideWidth)))
        over == Add(t, Neg(MulSecond(Extend(b, WideWidth))))
    IN  /\ \A i \in 3 .. WideWidth : over[i] = 0
        /\ over[2] < Base \div 4
        /\ over[2] * Base + over[1] < 10 ^ 9

\* C17: BuildQueryOptions copies limit, offset, unread and tag into the
\* descriptor for every input; an empty since token leaves SinceTime nil; a
\* token ParseDuration accepts sets SinceTime to the time of the call minus
\* the parsed duration, in whole seconds, whatever the clock shows later.
C17_ComposedDescriptor ==
    ret.op = "BuildQueryOptions" =>
        /\ ret.val[1].Limit = query.limit
        /\ ret.val[1].Offset = query.offset
        /\ ret.val[1].UnreadOnly = query.unread
        /\ ret.val[1].Tag = query.tag
        /\ query.since = <<>> => (~ ret.err /\ ret.val[1].SinceTime = <<>>)
        /\ (query.since # <<>> /\ ~ ParseDuration(query.since).err) =>
               /\ ~ ret.err
               /\ ret.val[1].SinceTime # <<>>
               /\ WholeSeconds(ret.val[1].SinceTime, query.now,
                               ParseDuration(query.since).d)

(***************************************************************************)
(* The read flag; deleting a feed.                                         *)
(***************************************************************************)
\* C18: MarkEntryRead(id, read) returns an error when no stored entry has
\* the id.
C18_MarkMissingFails ==
    (ret.op = "MarkEntryRead" /\ ~ \E r \in entries : r.id = ret.id) => ret.err

\* C19: MarkEntryRead(id, r) on a stored entry sets its read flag to r and
\* leaves its other fields, the other entries, the feeds and the id
\* counters as they were; marking an unread entry read and then unread
\* gives back the table it started from.
C19_MarkReadFrame ==
    [][\A id \in 1 .. MaxEntries, isRead \in BOOLEAN :
          ((\E r \in entries : r.id = id) /\ CallMarkEntryRead(id, isRead)) =>
              /\ ~ ret'.err
              /\ \A r \in entries :
                     IF r.id = id
                     THEN [r EXCEPT !.is_read = boolToInt(isRead)] \in entries'
                     ELSE r \in entries'
              /\ Cardinality(entries') = Cardinality(entries)
              /\ GetEntry(entries', id).val[1].IsRead = isRead
              /\ feeds' = feeds
              /\ seqFeeds' = seqFeeds
              /\ seqEntries' = seqEntries
              /\ (\E r \in entries : r.id = id /\ r.is_read = 0) =>
                     MarkEntryRead(MarkEntryRead(entries, id, TRUE).entries,
                                   id, FALSE).entries = entries]_vars

\* One of two stored entries has just been marked read, the other is unread
C19_Witness ==
    /\ ret.op = "MarkEntryRead"
    /\ ~ ret.err
    /\ Cardinality(entries) = 2
    /\ \E r \in entries : r.id = ret.id /\ r.is_read = 1
    /\ \E r \in entries : r.id # ret.id /\ r.is_read = 0

\* C20: when DeleteFeed(id) of a stored feed returns without error, no
\* stored feed has the id afterwards, no stored entry has feed_id = id, and
\* the entries of the other feeds are as they were.
C20_CascadingDelete ==
    [][\A id \in 1 .. MaxFeeds :
          ((\E f \in feeds : f.id = id) /\ CallDeleteFeed(id) /\ ~ ret'.err) =>
              /\ ~ \E f \in feeds' : f.id = id
              /\ ~ \E r \in entries' : r.feed_id = id
              /\ {r \in entries' : r.feed_id # id} = {r \in entries : r.feed_id # id}]_vars

(***************************************************************************)
(* Lookups; what the normalizer hands to the store; save and get.          *)
(***************************************************************************)
\* C21: GetFeed(id) and GetEntry(id) return an error and no value when no
\* stored row has the id (so GetFeed(id) fails once DeleteFeed(id) has
\* removed the feed), and neither changes the store.
C21_LookupNotFound ==
    [][/\ \A id \in 1 .. MaxFeeds :
             CallGetFeed(id) =>
                 /\ storeVars' = storeVars
                 /\ (~ \E f \in feeds : f.id = id) => (ret'.err /\ ret'.val = <<>>)
       /\ \A id \in 1 .. MaxEntries :
             CallGetEntry(id) =>
                 /\ storeVars' = storeVars
                 /\ (~ \E r \in entries : r.id = id) => (ret'.err /\ ret'.val = <<>>)]_vars

\* GetFeed has failed for the id of a feed that was stored and deleted
C21_Witness ==
    /\ ret.op = "GetFeed"
    /\ ret.err
    /\ ret.id <= seqFeeds
    /\ ~ \E f \in feeds : f.id = ret.id

\* the goroutine k has gone through its whole payload
Saved(k) == task[k].kind = "ok" /\ task[k].pc \in {"lock", "write", "release", "exit", "done"}

HasKey(feedID, guid) == \E r \in entries : r.feed_id = feedID /\ r.guid = guid

\* C22: every entry the normalizer makes has the GUID of its item when that
\* is not empty and the link of its item otherwise; and of two fetched
\* items of one feed with empty GUIDs and different links both are stored
\* when the goroutine has gone through its payload.
C22_GuidFallback ==
    \A k \in DOMAIN task :
        task[k].kind = "ok" =>
            /\ \A i \in 1 .. Len(task[k].items) :
                   task[k].entries[i].GUID =
                       IF task[k].items[i].GUID # "" THEN task[k].items[i].GUID
                       ELSE task[k].items[i].Link
            /\ Saved(k) =>
                   \A i, j \in 1 .. Len(task[k].items) :
                       (/\ task[k].items[i].GUID = ""
                        /\ task[k].items[j].GUID = ""
                        /\ task[k].items[i].Link # task[k].items[j].Link)
                       => (/\ HasKey(feedsToUpdate[k].ID, task[k].items[i].Link)
                           /\ HasKey(feedsToUpdate[k].ID, task[k].items[j].Link))

\* A goroutine has stored both items of a payload of two items with no GUID
C22_Witness ==
    \E k \in DOMAIN task :
        /\ Saved(k)
        /\ Len(task[k].items) = 2
        /\ task[k].items[1].GUID = ""
        /\ task[k].items[2].GUID = ""
        /\ task[k].newEntries = 2

\* C23: every entry the normalizer makes is unread, and every row an
\* update adds to the entries table is unread when it is added.
C23_InsertedUnread ==
    /\ [](\A k \in DOMAIN task :
              \A i \in 1 .. Len(task[k].entries) : ~ task[k].entries[i].IsRead)
    /\ [][\A r \in entries' \ entries : r.is_read = 0]_vars

\* An update has added two rows, both unread
C23_Witness ==
    /\ Cardinality(entries) = 2
    /\ \A r \in entries : r.is_read = 0
    /\ \E k \in DOMAIN task : task[k].newEntries = 2

\* C24: SaveFeed or SaveEntry of a value with ID = 0 that breaks no
\* uniqueness constraint succeeds and assigns an identifier that is not 0
\* and that no other stored row has; GetFeed / GetEntry of that identifier
\* then returns the saved url, title and category, or the saved guid, title,
\* link, feed_id and read flag.
C24_SaveGetRoundTrip ==
    [][/\ \A f \in PlainFeeds :
             ((~ \E r \in feeds : r.url = f.URL) /\ CallSaveFeed(f)) =>
                 /\ ~ ret'.err
                 /\ ret'.id # 0
                 /\ \A r \in feeds : r.id # ret'.id
                 /\ Cardinality({r \in feeds' : r.id = ret'.id}) = 1
                 /\ ~ GetFeed(feeds', ret'.id).err
                 /\ GetFeed(feeds', ret'.id).val[1].URL = f.URL
                 /\ GetFeed(feeds', ret'.id).val[1].Title = f.Title
                 /\ GetFeed(feeds', ret'.id).val[1].Category = f.Category
       /\ \A e \in EntryInputs :
             (/\ e.ID = 0
              /\ ~ \E r \in entries : r.feed_id = e.FeedID /\ r.guid = e.GUID
              /\ CallSaveEntry(e)) =>
                 /\ ~ ret'.err
                 /\ ret'.id # 0
                 /\ \A r \in entries : r.id # ret'.id
                 /\ Cardinality({r \in entries' : r.id = ret'.id}) = 1
                 /\ ~ GetEntry(entries', ret'.id).err
                 /\ GetEntry(entries', ret'.id).val[1].GUID = e.GUID
                 /\ GetEntry(entries', ret'.id).val[1].Title = e.Title
                 /\ GetEntry(entries', ret'.id).val[1].Link = e.Link
                 /\ GetEntry(entries', ret'.id).val[1].FeedID = e.FeedID
                 /\ GetEntry(entries', ret'.id).val[1].IsRead = e.IsRead]_vars

\* A second feed, with a title and a category, has just been saved, a read
\* entry being stored
C24_Witness ==
    /\ ret.op = "SaveFeed"
    /\ ~ ret.err
    /\ ret.id = 2
    /\ \E f \in feeds : f.id = 2 /\ f.title = "T" /\ f.category = "tech"
    /\ \E r \in entries : r.is_read = 1

(***************************************************************************)
(* markAllRead.                                                            *)
(***************************************************************************)
\* C25: when markAllRead has returned with no Store call of another command
\* between its query and its return, no stored entry is unread and
\* marked_read is the number of entries that were unread at its query; an
\* entry outside its list that another command added unread or set unread
\* between its query and its return is unread when it returns.
C25_MarkAllRead ==
    mark.pc = "returned" =>
        /\ mark.others = 0 =>
               /\ \A r \in entries : r.is_read = 1
               /\ mark.marked_read = mark.unread
        /\ \A id \in mark.late : \E r \in entries : r.id = id /\ r.is_read = 0

\* markAllRead has returned having marked two entries, and an entry that
\* was set unread after its query is unread
C25_Witness ==
    /\ mark.pc = "returned"
    /\ mark.marked_read = 2
    /\ mark.late # {}

(***************************************************************************)
(* OPML.                                                                   *)
(***************************************************************************)
\* C26: when a list of feeds has been generated and the document parsed,
\* the parsed list has the length of the original list and its i-th feed
\* has the URL, title and category of the i-th original feed.
C26_OpmlRoundTrip ==
    ret.op = "Parse" =>
        /\ ~ ret.err
        /\ Len(ret.val) = Len(query)
        /\ \A i \in 1 .. Len(query) :
              /\ ret.val[i].URL = query[i].URL
              /\ ret.val[i].Title = query[i].Title
              /\ ret.val[i].Category = query[i].Category

(***************************************************************************)
(* The save loop of a task and the counts it reports.                      *)
(***************************************************************************)
Written(k) == task[k].kind = "ok" /\ task[k].pc \in {"release", "exit", "done"}

RowsOf(feedID) == Cardinality({r \in entries : r.feed_id = feedID})

\* C27: when the save loop of a task has ended, every item of its payload
\* has its key persisted for the task's feed, whether or not SaveEntry
\* rejected earlier items of the payload; a step of the loop on an item
\* whose key is not yet persisted adds the item, however many items the
\* loop has rejected before; and the entry the task writes into results is
\* counts, not an error.
C27_RejectionDoesNotStopTask ==
    /\ [](\A k \in DOMAIN task :
             /\ Saved(k) =>
                   \A i \in 1 .. Len(task[k].entries) :
                       HasKey(feedsToUpdate[k].ID, task[k].entries[i].GUID)
             /\ Written(k) =>
                   /\ feedsToUpdate[k].URL \in DOMAIN results
                   /\ DOMAIN results[feedsToUpdate[k].URL] = {"new_entries", "total_entries"})
    /\ [][\A k \in DOMAIN task :
             (/\ task[k].pc = "save"
              /\ DOMAIN task' = DOMAIN task
              /\ task'[k].i = task[k].i + 1
              /\ ~ HasKey(feedsToUpdate[k].ID, task[k].entries[task[k].i].GUID))
             => \E r \in entries' \ entries :
                   /\ r.feed_id = feedsToUpdate[k].ID
                   /\ r.guid = task[k].entries[task[k].i].GUID]_vars

\* A task has written its counts after SaveEntry rejected the first item
\* of its payload and accepted the second
C27_Witness ==
    \E k \in DOMAIN task :
        /\ Written(k)
        /\ Len(task[k].entries) = 2
        /\ task[k].entries[1].ID = 0
        /\ task[k].entries[2].ID # 0
        /\ results[feedsToUpdate[k].URL].new_entries = 1

\* C28: for a task whose fetch succeeded and whose save loop has ended,
\* total_entries is the number of items of the fetched payload, new_entries
\* is the number of rows the store has gained for the task's feed since the
\* fetch returned, which is at most the number of distinct keys of the
\* payload, and 0 <= new_entries <= total_entries; once written, the entry
\* of the feed in results is these counts.
C28_PerSourceCounts ==
    \A k \in DOMAIN task :
        Saved(k) =>
            LET t == task[k]
                counts == ResultOf(t)
            IN  /\ counts.total_entries = Len(t.items)
                /\ counts.new_entries = RowsOf(feedsToUpdate[k].ID) - t.had
                /\ counts.new_entries
                     <= Cardinality({t.entries[i].GUID : i \in 1 .. Len(t.entries)})
                /\ 0 <= counts.new_entries
                /\ counts.new_entries <= counts.total_entries
                /\ Written(k) => results[feedsToUpdate[k].URL] = counts

\* A task has written its counts for a payload of two items with one key,
\* on a feed that held no row of that key
C28_Witness ==
    \E k \in DOMAIN task :
        /\ Written(k)
        /\ task[k].items = <<ItemA, ItemA2>>
        /\ task[k].had = 0
        /\ results[feedsToUpdate[k].URL] = [new_entries |-> 1, total_entries |-> 2]

(***************************************************************************)
(* Progress at the gate.                                                   *)
(***************************************************************************)
\* C29: in a sync where fewer than SemCap fetches never return, from some
\* point on no goroutine waits for a slot and none is still fetching: every
\* goroutine whose fetch returns has been admitted and has run to its end.
C29_HungFetchCostsOneSlot ==
    <>[](crowd.hung >= SemCap \/ (crowd.acquire = 0 /\ crowd.fetch = 0))

\* More goroutines than the channel has room for have run to their end
\* while a fetch that never returns holds a slot
C29_Witness ==
    /\ crowd.hung > 0
    /\ crowd.hung < SemCap
    /\ crowd.acquire = 0
    /\ crowd.fetch = 0
    /\ crowd.done > SemCap

\* C30: the tokens in the channel are those of the goroutines between
\* their send and their receive, and in a sync where every fetch returns,
\* from some point on wg.Wait() has returned, every goroutine has been
\* admitted and has run to its end, and the channel is empty.
C30_SyncReturns ==
    /\ [](sem = crowd.fetch + crowd.hung /\ sem <= SemCap)
    /\ \/ <>(crowd.hung > 0)
       \/ <>[](/\ mainPc = "returned"
               /\ crowd.acquire = 0
               /\ crowd.fetch = 0
               /\ sem = 0)

\* wg.Wait() has returned from a sync of MaxSources feeds, all run to
\* their end
C30_Witness ==
    /\ mainPc = "returned"
    /\ crowd.done = MaxSources
    /\ sem = 0

(***************************************************************************)
(* The aggregate of a sync.                                                *)
(***************************************************************************)
\* C31: in every reachable state of a sync at most one goroutine is
\* between mu.Lock() and mu.Unlock(), and it is the holder of the mutex;
\* every step that changes results or totalNewEntries within a run is taken
\* by the holder of the mutex and ends with the mutex free; and when the
\* sync has returned, results maps every feed's URL to the entry of its own
\* task and totalNewEntries is the sum over the tasks that succeeded,
\* whatever the order in which the tasks ended.
C31_SerializedAggregation ==
    /\ [](/\ Cardinality({k \in DOMAIN task : task[k].pc = "write"}) <= 1
          /\ \A k \in DOMAIN task : task[k].pc = "write" => mu = k
          /\ mainPc = "returned" =>
                /\ DOMAIN results = {feedsToUpdate[k].URL : k \in DOMAIN task}
                /\ \A k \in DOMAIN task :
                      results[feedsToUpdate[k].URL] = ResultOf(task[k])
                /\ totalNewEntries =
                      SumNewEntries({k \in DOMAIN task : task[k].kind = "ok"}))
    /\ [][(runs' = runs /\ (results' # results \/ totalNewEntries' # totalNewEntries))
             => (/\ mu \in DOMAIN task
                 /\ task[mu].pc = "write"
                 /\ task'[mu].pc = "release"
                 /\ mu' = 0)]_vars

\* One goroutine is inside the section while another waits for the mutex
C31_Witness ==
    \E k, j \in DOMAIN task :
        /\ k # j
        /\ task[k].pc = "write"
        /\ mu = k
        /\ task[j].pc = "lock"

(***************************************************************************)
(* Two inserts of one pair.                                                *)
(***************************************************************************)
\* C32: when two callers have both returned from SaveEntry of entries of
\* ID 0 with one (feed_id, guid) pair that was not persisted, in either
\* order of the two INSERTs exactly one call has returned no error, the
\* other an error, and the store holds exactly one row of the pair, which
\* is the row of the call that succeeded.
C32_ConcurrentInsert ==
    (\A c \in 1 .. 2 : task[c].pc = "returned") =>
        /\ task[1].err # task[2].err
        /\ \A c \in 1 .. 2 :
              LET pair == {r \in entries : /\ r.feed_id = task[c].e.FeedID
                                           /\ r.guid = task[c].e.GUID}
              IN  /\ Cardinality(pair) = 1
                  /\ ~ task[c].err => pair = {EntryRow(task[c].e.ID, task[c].e)}
                  /\ task[c].err => task[c].e.ID = 0

\* The second caller's INSERT ran first: it succeeded and the first
\* caller's failed, beside a row of another pair
C32_Witness ==
    /\ \A c \in 1 .. 2 : task[c].pc = "returned"
    /\ task[1].err
    /\ ~ task[2].err
    /\ task[1].e.Title # task[2].e.Title
    /\ Cardinality(entries) = 2

(***************************************************************************)
(* The update of one feed.                                                 *)
(***************************************************************************)
\* C33: an update called with the id of a stored feed leaves the store as
\* it is while it resolves the feed, and goes on with that feed alone and
\* one task; an update called with an id no feed has fails with no task
\* and the store unchanged, and nothing is dispatched after the failure; a
\* step of an update of one feed neither adds, removes nor changes an entry
\* of another feed nor any feed; and when it has returned, exactly one task
\* was dispatched and the report has exactly one entry.
C33_SingleTargetSync ==
    /\ [](/\ mainPc = "failed" => (task = <<>> /\ wg = 0 /\ feedsToUpdate = <<>>)
          /\ (mainPc = "returned" /\ Len(feedsToUpdate) = 1) =>
                /\ Len(task) = 1
                /\ report.updated_feeds = 1
                /\ DOMAIN report.results = {feedsToUpdate[1].URL})
    /\ [][/\ \A feedID \in 1 .. MaxFeeds :
                StartSync(feedID) =>
                    /\ UNCHANGED storeVars
                    /\ IF \E r \in feeds : r.id = feedID
                       THEN /\ mainPc' = "dispatch"
                            /\ Len(feedsToUpdate') = 1
                            /\ feedsToUpdate'[1].ID = feedID
                            /\ Len(task') = 1
                       ELSE /\ mainPc' = "failed"
                            /\ task' = <<>>
                            /\ wg' = 0
          /\ (runs' = runs /\ Len(feedsToUpdate) = 1) =>
                /\ feeds' = feeds
                /\ \A r \in entries \cup entries' :
                      r.feed_id # feedsToUpdate[1].ID => (r \in entries /\ r \in entries')]_vars

\* An update of one of two feeds has returned with a new entry, the other
\* feed holding an entry
C33_Witness ==
    /\ mainPc = "returned"
    /\ Len(feedsToUpdate) = 1
    /\ Cardinality(feeds) = 2
    /\ task[1].newEntries > 0
    /\ \E r \in entries : r.feed_id # feedsToUpdate[1].ID

(***************************************************************************)
(* The tag of a descriptor.                                                *)
(***************************************************************************)
TagsAsked == {"", "x"}

IDsOnPage(i) == {pages[i].val[j].ID : j \in 1 .. Len(pages[i].val)}

\* the reader has asked for every page from offset 0 up to the end
AllPagesAsked ==
    \A k \in 0 .. MaxRows :
        k * query.Limit < Cardinality(Asked) =>
            \E i \in 1 .. Len(pages) : pages[i].Offset = k * query.Limit

\* C35: on an unchanging store, entries of one publication time included,
\* two calls of the same query return the same sequence, the pages of two
\* different offsets share no entry, and the pages from offset 0 to the end
\* together hold every matching entry.
C35_StablePagination ==
    /\ \A i, j \in 1 .. Len(pages) :
          /\ pages[i].Offset = pages[j].Offset => pages[i].val = pages[j].val
          /\ pages[i].Offset # pages[j].Offset => IDsOnPage(i) \cap IDsOnPage(j) = {}
    /\ (pages # <<>> /\ AllPagesAsked) =>
          UNION {IDsOnPage(i) : i \in 1 .. Len(pages)} = {r.id : r \in Asked}

(***************************************************************************)
(* The scope of the entries' key.                                          *)
(***************************************************************************)
RowsOfKey(feedID, guid) == {r \in entries : r.feed_id = feedID /\ r.guid = guid}

\* C36: a SaveEntry of a task for an entry whose guid no row of the
\* task's feed holds adds the row and counts it, whatever rows other feeds
\* hold, rows of the same guid included; and when the tasks of two feeds
\* have saved payloads that share a guid, the store holds exactly one row
\* of that guid for each of the two feeds.
C36_UniquePerSource ==
    /\ [](\A k, j \in DOMAIN task :
             (k # j /\ Saved(k) /\ Saved(j)) =>
                 \A a \in 1 .. Len(task[k].entries), b \in 1 .. Len(task[j].entries) :
                     task[k].entries[a].GUID = task[j].entries[b].GUID =>
                         /\ Cardinality(RowsOfKey(feedsToUpdate[k].ID,
                                                  task[k].entries[a].GUID)) = 1
                         /\ Cardinality(RowsOfKey(feedsToUpdate[j].ID,
                                                  task[k].entries[a].GUID)) = 1)
    /\ [][\A k \in DOMAIN task :
             (/\ task[k].pc = "save"
              /\ DOMAIN task' = DOMAIN task
              /\ task'[k].i = task[k].i + 1
              /\ RowsOfKey(feedsToUpdate[k].ID, task[k].entries[task[k].i].GUID) = {})
             => (/\ task'[k].newEntries = task[k].newEntries + 1
                 /\ Cardinality(entries') = Cardinality(entries) + 1
                 /\ \E r \in entries' \ entries :
                       /\ r.feed_id = feedsToUpdate[k].ID
                       /\ r.guid = task[k].entries[task[k].i].GUID)]_vars

\* The tasks of two feeds have each saved an entry of the guid "l1"
C36_Witness ==
    \E k, j \in DOMAIN task :
        /\ k # j
        /\ Saved(k)
        /\ Saved(j)
        /\ task[k].newEntries > 0
        /\ task[j].newEntries > 0
        /\ RowsOfKey(feedsToUpdate[k].ID, "l1") # {}
        /\ RowsOfKey(feedsToUpdate[j].ID, "l1") # {}

(***************************************************************************)
(* What a sync leaves alone.                                               *)
(***************************************************************************)
\* C37: no step of a sync removes or changes a stored entry (every row of
\* entries is a row of entries after the step, with its id, feed_id, guid,
\* title, link, content, published and is_read), and no step of a sync
\* changes the feeds; so an entry persisted before a sync is the same
\* after it, also when the sync fetched an item of its key with other
\* fields.
C37_SyncOnlyAdds ==
    [][/\ entries \subseteq entries'
       /\ feeds' = feeds
       /\ seqFeeds' = seqFeeds]_vars

\* A task whose payload held the key of a stored entry with other fields
\* has ended its save loop with nothing new, and the entry has its fields
C37_Witness ==
    \E k \in DOMAIN task :
        /\ Saved(k)
        /\ task[k].items = <<ItemA2>>
        /\ task[k].newEntries = 0
        /\ \E r \in entries :
              /\ r.feed_id = feedsToUpdate[k].ID
              /\ r.guid = "l1"
              /\ r.title = "a"
              /\ r.link = "l1"

(***************************************************************************)
(* The sign of a parsed duration.                                          *)
(***************************************************************************)
\* C38: for every token ParseDuration accepts, the duration it returns is
\* not negative and is the exact product of the token's number and its
\* unit; and the SinceTime BuildQueryOptions composes from an accepted
\* token is not later than the second of the call.
C38_DurationNeverWraps ==
    /\ (ret.op = "ParseDuration" /\ ~ ret.err) =>
          /\ ~ IsNeg(ret.val[1])
          /\ Extend(ret.val[1], WideWidth) = ExactDuration(query)
    /\ (ret.op = "BuildQueryOptions" /\ ~ ret.err /\ query.since # <<>>) =>
          ~ IsNeg(Add(FromNat(query.now.sec, WideWidth),
                      Neg(Extend(ret.val[1].SinceTime, WideWidth))))

(***************************************************************************)
(* SaveFeed and SaveEntry with an identifier.                              *)
(***************************************************************************)
\* C39 as stated: SaveFeed and SaveEntry called with a non-zero ID leave
\* the numbers of feeds and entries as they are; the row of that id, if
\* there is one, takes the given fields and keeps its id; and when no row
\* has the id, the call returns no error and the store is unchanged.
C39_UpdateNeverCreates ==
    [][/\ \A f \in OtherFeedInputs :
             (f.ID # 0 /\ CallSaveFeed(f)) =>
                 /\ Cardinality(feeds') = Cardinality(feeds)
                 /\ (\E r \in feeds : r.id = f.ID) => FeedRow(f.ID, f) \in feeds'
                 /\ (~ \E r \in feeds : r.id = f.ID) => (~ ret'.err /\ feeds' = feeds)
       /\ \A e \in OtherEntryInputs :
             (e.ID # 0 /\ CallSaveEntry(e)) =>
                 /\ Cardinality(entries') = Cardinality(entries)
                 /\ (\E r \in entries : r.id = e.ID) => EntryRow(e.ID, e) \in entries'
                 /\ (~ \E r \in entries : r.id = e.ID) =>
                        (~ ret'.err /\ entries' = entries)]_vars

\* C39 amended: SaveFeed and SaveEntry called with a non-zero ID leave the
\* numbers of feeds and entries and every other row as they are; when no
\* row has the id, the call returns no error and the store is unchanged;
\* when a row has the id and another row holds the given URL (for a feed)
\* or the given (feed_id, guid) pair (for an entry), the call returns an
\* error and the store is unchanged; otherwise the call returns no error
\* and the row takes the given fields and keeps its id.
C39_UpdateInPlace ==
    [][/\ \A f \in OtherFeedInputs :
             (f.ID # 0 /\ CallSaveFeed(f)) =>
                 /\ Cardinality(feeds') = Cardinality(feeds)
                 /\ seqFeeds' = seqFeeds
                 /\ {r \in feeds' : r.id # f.ID} = {r \in feeds : r.id # f.ID}
                 /\ ret'.id = f.ID
                 /\ IF ~ \E r \in feeds : r.id = f.ID
                    THEN ~ ret'.err /\ feeds' = feeds
                    ELSE IF \E r \in feeds : r.url = f.URL /\ r.id # f.ID
                         THEN ret'.err /\ feeds' = feeds
                         ELSE ~ ret'.err /\ FeedRow(f.ID, f) \in feeds'
       /\ \A e \in OtherEntryInputs :
             (e.ID # 0 /\ CallSaveEntry(e)) =>
                 /\ Cardinality(entries') = Cardinality(entries)
                 /\ seqEntries' = seqEntries
                 /\ {r \in entries' : r.id # e.ID} = {r \in entries : r.id # e.ID}
                 /\ ret'.id = e.ID
                 /\ IF ~ \E r \in entries : r.id = e.ID
                    THEN ~ ret'.err /\ entries' = entries
                    ELSE IF \E r \in entries : /\ r.feed_id = e.FeedID
                                               /\ r.guid = e.GUID
                                               /\ r.id # e.ID
                         THEN ret'.err /\ entries' = entries
                         ELSE ~ ret'.err /\ EntryRow(e.ID, e) \in entries']_vars

\* SaveFeed with the id of a stored feed has given the row an empty title
C39_Witness ==
    /\ ret.op = "SaveFeed"
    /\ ~ ret.err
    /\ ret.id # 0
    /\ ret.id < seqFeeds
    /\ \E r \in feeds : r.id = ret.id /\ r.title = ""

(***************************************************************************)
(* importOPML.                                                             *)
(***************************************************************************)
\* C40: when importOPML has returned, its loop has passed every parsed
\* feed once, imported + skipped is the number of parsed feeds, the URL of
\* every parsed feed is persisted, the store holds exactly imported feeds
\* more than before and every feed it held before, and each skipped feed
\* is named in errors; and when it has returned from the second import of
\* a file, imported is 0 and the feeds are those the store held before.
C40_BulkImport ==
    imp.pc = "returned" =>
        /\ imp.i = Len(imp.feeds) + 1
        /\ imp.imported + imp.skipped = Len(imp.feeds)
        /\ Len(imp.errors) = imp.skipped
        /\ \A i \in 1 .. Len(imp.feeds) : \E r \in feeds : r.url = imp.feeds[i].URL
        /\ Cardinality(feeds) = imp.had + imp.imported
        /\ imp.before \subseteq feeds
        /\ imp.imported = Cardinality({imp.feeds[i].URL : i \in 1 .. Len(imp.feeds)}
                                          \ {r.url : r \in imp.before})
        /\ imp.round > 1 => (imp.imported = 0 /\ feeds = imp.before)

\* The second import of a file of two feeds of one URL has returned, the
\* store having held no feed before the first
C40_Witness ==
    /\ imp.pc = "returned"
    /\ imp.round = 2
    /\ Len(imp.feeds) = 2
    /\ imp.feeds[1].URL = imp.feeds[2].URL
    /\ imp.skipped = 2
    /\ Cardinality(feeds) = 1

====
